---------------------------- MODULE Spec2Model ----------------------------
(***************************************************************************)
(* Model of the natural-language query interpreter of dynamo-fixed:        *)
(* findBestAttributeMatch (the attribute resolver) and smartQuery (the     *)
(* query interpreter) of src/unnamed/part_000, with getTableSchema of      *)
(* src/mcp-dynamo/index.ts and the DynamoDB client as the store.           *)
(*                                                                         *)
(* JavaScript strings are TLA+ strings; Len, SubSeq and \o act on them as  *)
(* length, substring and concatenation.  A request is a state machine      *)
(* whose steps are the stretches of smartQuery between two awaits.         *)
(***************************************************************************)
EXTENDS Integers, Sequences, FiniteSets, TLC

VARIABLES
    store,     \* the table description and the table's records held by the store
    params,    \* params[r]: the argument object of request r
    pc,        \* pc[r]: where request r stands: start, awaitSchema, awaitScan, done
    loc,       \* loc[r]: the local variables of smartQuery in request r
    calls,     \* calls[r]: the commands request r has sent to the store, in order
    replies,   \* replies[r]: the store's reply to each command of calls[r], in order
    outcome    \* outcome[r]: pending, or how the call ended: returned / raised

vars == <<store, params, pc, loc, calls, replies, outcome>>

\* The element of a set of one element.  Only({e(x) : x \in {v}}) is e with
\* x naming the value v: the idiom names an intermediate result that is used
\* more than once, as a const declaration does in the source.
Only(S) == CHOOSE y \in S : TRUE

(***************************************************************************)
(* Strings                                                                 *)
(***************************************************************************)
UpperAlpha == "ABCDEFGHIJKLMNOPQRSTUVWXYZ"
LowerAlpha == "abcdefghijklmnopqrstuvwxyz"
DigitChars == "0123456789"

CharAt(s, i) == SubSeq(s, i, i)

\* the characters of a string, as a set
CharsOf(set) == {CharAt(set, i) : i \in 1..Len(set)}

IndexIn(c, set) == CHOOSE i \in 1..Len(set) : CharAt(set, i) = c

\* character classes of the regular expressions: \d, [A-Za-z], \w and \s (over
\* the characters the modelled texts use)
Digits == CharsOf(DigitChars)
Letters == CharsOf(UpperAlpha) \cup CharsOf(LowerAlpha)
WordChars == Letters \cup Digits \cup {"_"}
SpaceChars == {" "}

IsDigit(c) == c \in Digits
IsSpace(c) == c \in SpaceChars

\* the lower-case letter of each upper-case letter
LowerOf == [c \in CharsOf(UpperAlpha) |-> CharAt(LowerAlpha, IndexIn(c, UpperAlpha))]

toLowerChar(c) == IF c \in DOMAIN LowerOf THEN LowerOf[c] ELSE c

RECURSIVE toLowerFrom(_, _)
toLowerFrom(s, i) ==
    IF i > Len(s) THEN "" ELSE toLowerChar(CharAt(s, i)) \o toLowerFrom(s, i + 1)

\* String.prototype.toLowerCase
toLowerCase(s) == toLowerFrom(s, 1)

\* pat occurs in s at offset i (0-based)
OccursAt(s, pat, i) ==
    /\ i >= 0
    /\ i + Len(pat) <= Len(s)
    /\ SubSeq(s, i + 1, i + Len(pat)) = pat

\* String.prototype.includes
includes(s, pat) == \E i \in 0..Len(s) : OccursAt(s, pat, i)

\* \bword\b matches somewhere in s
MatchesWord(s, word) ==
    \E i \in 0..Len(s) :
        /\ OccursAt(s, word, i)
        /\ (i = 0 \/ CharAt(s, i) \notin WordChars)
        /\ (i + Len(word) = Len(s) \/ CharAt(s, i + Len(word) + 1) \notin WordChars)

\* the largest j >= i-1 such that every character of s[i..j] is in class
RECURSIVE RunEnd(_, _, _)
RunEnd(s, i, class) ==
    IF i <= Len(s) /\ CharAt(s, i) \in class THEN RunEnd(s, i + 1, class) ELSE i - 1

\* String.prototype.trim
trim(s) ==
    IF \A k \in 1..Len(s) : IsSpace(CharAt(s, k)) THEN ""
    ELSE LET a == CHOOSE i \in 1..Len(s) :
                      ~IsSpace(CharAt(s, i)) /\ \A k \in 1..(i - 1) : IsSpace(CharAt(s, k))
             b == CHOOSE j \in 1..Len(s) :
                      ~IsSpace(CharAt(s, j)) /\ \A k \in (j + 1)..Len(s) : IsSpace(CharAt(s, k))
         IN  SubSeq(s, a, b)

RECURSIVE removeQuotesFrom(_, _)
removeQuotesFrom(s, i) ==
    IF i > Len(s) THEN ""
    ELSE (IF CharAt(s, i) \in {"'", "\""} THEN "" ELSE CharAt(s, i))
             \o removeQuotesFrom(s, i + 1)

(***************************************************************************)
(* The attribute resolver                                                  *)
(***************************************************************************)
\* Array.prototype.find with the predicate "the lowercased name includes frag":
\* the first such attribute in schema order, or <<>> for undefined
findContaining(attributeNames, frag) ==
    IF \E k \in 1..Len(attributeNames) :
           includes(toLowerCase(attributeNames[k]), toLowerCase(frag))
    THEN LET k == CHOOSE n \in 1..Len(attributeNames) :
                      /\ includes(toLowerCase(attributeNames[n]), toLowerCase(frag))
                      /\ \A m \in 1..(n - 1) :
                             ~includes(toLowerCase(attributeNames[m]), toLowerCase(frag))
         IN  <<attributeNames[k]>>
    ELSE <<>>

\* keywordMap: the trigger words of each rule and its candidate fragments, in order
keywordMap ==
    << [keyword |-> <<"from", "source">>,
        potentialMatches |-> <<"SourceCountry", "source", "from">>],
       [keyword |-> <<"to", "destination">>,
        potentialMatches |-> <<"DestinationCountry", "destination", "to">>],
       [keyword |-> <<"amt", "cost", "price", "value">>,
        potentialMatches |-> <<"Amount", "amount", "cost", "price", "value">>],
       [keyword |-> <<"when", "day", "time", "period">>,
        potentialMatches |-> <<"Date", "date", "timestamp">>],
       [keyword |-> <<"type", "category">>,
        potentialMatches |-> <<"TradeType", "type", "category">>] >>

\* lowerQuery.match(/\b(w1|w2|...)\b/i)
keywordMatches(lowerQuery, keyword) ==
    \E k \in 1..Len(keyword) : MatchesWord(lowerQuery, keyword[k])

\* the inner loop over potentialMatches, from fragment m on
RECURSIVE firstPotentialMatch(_, _, _)
firstPotentialMatch(attributeNames, potentialMatches, m) ==
    IF m > Len(potentialMatches) THEN <<>>
    ELSE Only({ IF schemaMatch # <<>> THEN schemaMatch
                ELSE firstPotentialMatch(attributeNames, potentialMatches, m + 1)
                : schemaMatch \in {findContaining(attributeNames, potentialMatches[m])} })

\* the outer loop over keywordMap, from rule n on
RECURSIVE keywordLoop(_, _, _)
keywordLoop(lowerQuery, attributeNames, n) ==
    IF n > Len(keywordMap) THEN <<>>
    ELSE Only({ IF hit # <<>> THEN hit
                ELSE keywordLoop(lowerQuery, attributeNames, n + 1)
                : hit \in { IF keywordMatches(lowerQuery, keywordMap[n].keyword)
                            THEN firstPotentialMatch(attributeNames,
                                                     keywordMap[n].potentialMatches, 1)
                            ELSE <<>> } })

\* a direct match that keeps the last matching attribute instead of the first
directMatchLast(lowerQuery, attributeNames) ==
    IF \E k \in 1..Len(attributeNames) :
           includes(lowerQuery, toLowerCase(attributeNames[k]))
    THEN LET k == CHOOSE n \in 1..Len(attributeNames) :
                      /\ includes(lowerQuery, toLowerCase(attributeNames[n]))
                      /\ \A m \in (n + 1)..Len(attributeNames) :
                             ~includes(lowerQuery, toLowerCase(attributeNames[m]))
         IN  <<attributeNames[k]>>
    ELSE <<>>

\* the direct match: the first attribute whose lowercased name the query includes
directMatch(lowerQuery, attributeNames) ==
    IF \E k \in 1..Len(attributeNames) :
           includes(lowerQuery, toLowerCase(attributeNames[k]))
    THEN LET k == CHOOSE n \in 1..Len(attributeNames) :
                      /\ includes(lowerQuery, toLowerCase(attributeNames[n]))
                      /\ \A m \in 1..(n - 1) :
                             ~includes(lowerQuery, toLowerCase(attributeNames[m]))
         IN  <<attributeNames[k]>>
    ELSE <<>>

\* findBestAttributeMatch with the keyword rules tried before the direct match
findBestAttributeMatchKeywordFirst(queryText, attributeNames) ==
    Only({ Only({ IF byKeyword # <<>> THEN byKeyword
                  ELSE directMatch(lowerQuery, attributeNames)
                  : byKeyword \in {keywordLoop(lowerQuery, attributeNames, 1)} })
           : lowerQuery \in {toLowerCase(queryText)} })

\* findBestAttributeMatch: <<attr>> for a match, <<>> for undefined
findBestAttributeMatch(queryText, attributeNames) ==
    Only({ Only({ IF direct # <<>> THEN direct
                  ELSE keywordLoop(lowerQuery, attributeNames, 1)
                  : direct \in {directMatch(lowerQuery, attributeNames)} })
           : lowerQuery \in {toLowerCase(queryText)} })

(***************************************************************************)
(* The patterns of the cascade                                             *)
(***************************************************************************)
\* [A-Za-z0-9\s.-]
ValueChars == Letters \cup Digits \cup SpaceChars \cup {".", "-"}
\* [A-Za-z0-9\s-]
SimpleValueChars == Letters \cup Digits \cup SpaceChars \cup {"-"}

\* The tail "\s+(class+)" (minSpaces = 1) or "\s*(class+)" (minSpaces = 0) of a
\* pattern, tried at position p of s, for a class that holds \s.  The white
\* space is taken greedily; when no class character follows it, the matcher backs
\* off one white-space character, which the group then takes.  <<group>>, or <<>>
\* when the tail does not match.
valueGroup(s, p, minSpaces, class) ==
    Only({ IF e - p + 1 >= minSpaces /\ e < Len(s) /\ CharAt(s, e + 1) \in class
           THEN <<SubSeq(s, e + 1, RunEnd(s, e + 1, class))>>
           ELSE IF e - p + 1 >= minSpaces + 1
           THEN <<SubSeq(s, e, e)>>
           ELSE <<>>
           : e \in {RunEnd(s, p, SpaceChars)} })

\* the least element of a non-empty set of integers
Least(S) == CHOOSE x \in S : \A y \in S : x <= y

naturalOperators == <<"after", "before", "less than", "greater than">>

\* /(after|before|less than|greater than)\s+([A-Za-z0-9\s.-]+)/i tried at offset
\* i of s, whose lower-case form is lower (the pattern ignores case)
naturalOpAt(s, lower, i) ==
    LET alts == {k \in 1..Len(naturalOperators) :
                    /\ OccursAt(lower, naturalOperators[k], i)
                    /\ valueGroup(s, i + Len(naturalOperators[k]) + 1, 1, ValueChars) # <<>>}
    IN  IF alts = {} THEN <<>>
        ELSE LET k == Least(alts)
                 n == Len(naturalOperators[k])
             IN  <<SubSeq(s, i + 1, i + n),
                   valueGroup(s, i + n + 1, 1, ValueChars)[1]>>

\* the leftmost match from offset i on
RECURSIVE naturalOpFrom(_, _, _)
naturalOpFrom(s, lower, i) ==
    IF i > Len(s) THEN <<>>
    ELSE Only({ IF m # <<>> THEN m ELSE naturalOpFrom(s, lower, i + 1)
                : m \in {naturalOpAt(s, lower, i)} })

\* queryText.match(naturalOp pattern): <<group 1, group 2>> of the leftmost match, or <<>>
naturalOpMatch(s) == naturalOpFrom(s, toLowerCase(s), 0)

explicitOperators == <<">=", "<=", ">", "<", "=">>

\* /(\w+)\s*(>=|<=|>|<|=)\s*([A-Za-z0-9\s.-]+)/i tried with \w+ starting at position i
explicitAt(s, i) ==
    IF ~(i <= Len(s) /\ CharAt(s, i) \in WordChars) THEN <<>>
    ELSE Only({ Only({ Only({
             IF alts = {} THEN <<>>
             ELSE Only({ <<SubSeq(s, i, wEnd), explicitOperators[k],
                           valueGroup(s, q + Len(explicitOperators[k]), 0, ValueChars)[1]>>
                         : k \in {Least(alts)} })
             : alts \in {{k \in 1..Len(explicitOperators) :
                            /\ OccursAt(s, explicitOperators[k], q - 1)
                            /\ valueGroup(s, q + Len(explicitOperators[k]), 0, ValueChars) # <<>>}} })
             : q \in {RunEnd(s, wEnd + 1, SpaceChars) + 1} })
             : wEnd \in {RunEnd(s, i, WordChars)} })

\* the leftmost match from position i on
RECURSIVE explicitFrom(_, _)
explicitFrom(s, i) ==
    IF i > Len(s) THEN <<>>
    ELSE Only({ IF m # <<>> THEN m ELSE explicitFrom(s, i + 1)
                : m \in {explicitAt(s, i)} })

\* queryText.match(explicit pattern): <<group 1, group 2, group 3>> or <<>>
explicitMatch(s) == explicitFrom(s, 1)

\* /(\w+)\s+([A-Za-z0-9\s-]+)/i tried with \w+ starting at position i
simpleAt(s, i) ==
    IF ~(i <= Len(s) /\ CharAt(s, i) \in WordChars) THEN <<>>
    ELSE Only({ Only({ IF g = <<>> THEN <<>> ELSE <<SubSeq(s, i, wEnd), g[1]>>
                       : g \in {valueGroup(s, wEnd + 1, 1, SimpleValueChars)} })
                : wEnd \in {RunEnd(s, i, WordChars)} })

\* the leftmost match from position i on
RECURSIVE simpleFrom(_, _)
simpleFrom(s, i) ==
    IF i > Len(s) THEN <<>>
    ELSE Only({ IF m # <<>> THEN m ELSE simpleFrom(s, i + 1)
                : m \in {simpleAt(s, i)} })

\* queryText.match(simple pattern): <<group 1, group 2>> or <<>>
simpleMatch(s) == simpleFrom(s, 1)

(***************************************************************************)
(* Values.  A JavaScript number is a decimal num / 10^exp, kept normalised *)
(* (exp = 0 or num not a multiple of 10); a string is its text.            *)
(***************************************************************************)
RECURSIVE Pow10(_)
Pow10(k) == IF k = 0 THEN 1 ELSE 10 * Pow10(k - 1)

RECURSIVE normalise(_, _)
normalise(num, exp) ==
    IF exp > 0 /\ num % 10 = 0 THEN normalise(num \div 10, exp - 1)
    ELSE [t |-> "number", num |-> num, exp |-> exp]

Num(n) == [t |-> "number", num |-> n, exp |-> 0]
Str(s) == [t |-> "string", s |-> s]

\* a < b for two numbers
NumLess(a, b) == a.num * Pow10(b.exp) < b.num * Pow10(a.exp)

\* the digits s[i..j] read as a decimal integer
RECURSIVE digitsValue(_, _, _)
digitsValue(s, i, j) ==
    IF j < i THEN 0
    ELSE 10 * digitsValue(s, i, j - 1) + (IndexIn(CharAt(s, j), DigitChars) - 1)

\* parseFloat(s) for a trimmed s: the longest prefix [-]digits[.digits] or
\* [-].digits read as a number, <<>> for NaN.  (Exponents and "Infinity" are not
\* among the modelled texts.)
\* the number that the prefix s[1..fEnd] spells: integer digits s[a..iEnd],
\* then, where fEnd > iEnd, a point and the fraction digits s[iEnd+2..fEnd]
decimalOf(s, sign, a, iEnd, fEnd) ==
    IF iEnd < a /\ fEnd <= iEnd + 1 THEN <<>>
    ELSE IF fEnd <= iEnd + 1 THEN <<normalise(sign * digitsValue(s, a, iEnd), 0)>>
    ELSE <<normalise(sign * (digitsValue(s, a, iEnd) * Pow10(fEnd - (iEnd + 1))
                                 + digitsValue(s, iEnd + 2, fEnd)),
                     fEnd - (iEnd + 1))>>

\* the end of the fraction that follows the integer digits ending at iEnd
fractionEnd(s, iEnd) ==
    IF iEnd < Len(s) /\ CharAt(s, iEnd + 1) = "."
    THEN RunEnd(s, iEnd + 2, Digits) ELSE iEnd

parseFloat(s) ==
    Only({ Only({ decimalOf(s, IF a = 2 THEN 0 - 1 ELSE 1, a, iEnd, fractionEnd(s, iEnd))
                  : iEnd \in {RunEnd(s, a, Digits)} })
           : a \in {IF Len(s) >= 1 /\ CharAt(s, 1) = "-" THEN 2 ELSE 1} })

\* the end of the prefix of s that parseFloat reads
floatPrefixEnd(s) ==
    fractionEnd(s, RunEnd(s, IF Len(s) >= 1 /\ CharAt(s, 1) = "-" THEN 2 ELSE 1, Digits))

\* Number(v ?? 0) || 0 for a field value v, <<>> being a missing field.  Number
\* of a string is the number its whole trimmed text spells, 0 for "", else NaN.
toSortKey(v) ==
    IF v = <<>> THEN Num(0)
    ELSE IF v[1].t = "number" THEN v[1]
    ELSE Only({ Only({ IF text # "" /\ p # <<>> /\ floatPrefixEnd(text) = Len(text)
                       THEN p[1] ELSE Num(0)
                       : p \in {parseFloat(text)} })
                : text \in {trim(v[1].s)} })

\* /\d{4}[-/]\d{2}[-/]\d{2}/ matches at position i of s
datePatternAt(s, i) ==
    /\ i + 9 <= Len(s)
    /\ \A k \in {0, 1, 2, 3, 5, 6, 8, 9} : IsDigit(CharAt(s, i + k))
    /\ \A k \in {4, 7} : CharAt(s, i + k) \in {"-", "/"}

\* value.match(datePattern)
matchesDatePattern(s) == \E i \in 1..Len(s) : datePatternAt(s, i)

isLeapYear(y) == (y % 4 = 0 /\ y % 100 # 0) \/ y % 400 = 0

daysInMonth(y, m) ==
    IF m = 2 THEN (IF isLeapYear(y) THEN 29 ELSE 28)
    ELSE IF m \in {4, 6, 9, 11} THEN 30 ELSE 31

pad(n, width) ==
    LET text == ToString(n)
    IN  SubSeq("0000", 1, width - Len(text)) \o text

\* new Date(value) followed by toISOString().split('T')[0]: <<"YYYY-MM-DD">>, or
\* <<>> when the date is invalid (isNaN(date.getTime())).  A value of the form
\* YYYY-MM-DD is a date-only ISO string, read as UTC midnight: the month must be
\* 1..12 and the day 1..31, and a day past the end of the month rolls over into
\* the next month.  A date followed by further words is no ISO string, and the
\* fallback parser rejects a word that follows a number.  (A value in which
\* words precede the date is read by the fallback parser in local time; the
\* inputs of the model hold no such value.)
newDateISO(value) ==
    IF ~(Len(value) = 10 /\ datePatternAt(value, 1)
          /\ CharAt(value, 5) = "-" /\ CharAt(value, 8) = "-")
    THEN <<>>
    ELSE LET y == digitsValue(value, 1, 4)
             m == digitsValue(value, 6, 7)
             d == digitsValue(value, 9, 10)
         IN  IF m < 1 \/ m > 12 \/ d < 1 \/ d > 31 THEN <<>>
             ELSE IF d <= daysInMonth(y, m)
             THEN <<pad(y, 4) \o "-" \o pad(m, 2) \o "-" \o pad(d, 2)>>
             ELSE <<pad(y, 4) \o "-" \o pad(m + 1, 2) \o "-"
                        \o pad(d - daysInMonth(y, m), 2)>>

(***************************************************************************)
(* The filter of a request                                                 *)
(***************************************************************************)
\* a JavaScript object without properties
EmptyObject == [k \in {} |-> k]

\* the filter variables smartQuery declares before its try block, and valueIndex
NoFilter ==
    [filterParts |-> <<>>,
     expressionAttributeNames |-> EmptyObject,
     expressionAttributeValues |-> EmptyObject,
     valueIndex |-> 0,
     filterFound |-> FALSE]

\* typedValue with the numeric rule tried before the date rule
typedValueNumericFirst(targetAttribute, value) ==
    LET isDateField == \/ includes(toLowerCase(targetAttribute), "date")
                       \/ includes(toLowerCase(targetAttribute), "time")
    IN  Only({ IF number # <<>> THEN number[1]
               ELSE IF isDateField /\ matchesDatePattern(value)
               THEN Only({ IF date # <<>> THEN Str(date[1]) ELSE Str(value)
                           : date \in {newDateISO(value)} })
               ELSE Str(value)
               : number \in {parseFloat(value)} })

\* the typed literal of a cleaned, non-empty value under targetAttribute
typedValue(targetAttribute, value) ==
    LET isDateField == \/ includes(toLowerCase(targetAttribute), "date")
                       \/ includes(toLowerCase(targetAttribute), "time")
    IN  IF isDateField /\ matchesDatePattern(value)
        THEN Only({ IF date # <<>> THEN Str(date[1]) ELSE Str(value)
                    : date \in {newDateISO(value)} })
        ELSE Only({ IF number # <<>> THEN number[1] ELSE Str(value)
                    : number \in {parseFloat(value)} })

\* processAndAddFilter without the entry of line 392 in the name map
processAndAddFilterWithoutName(f, targetAttribute, op, rawValue) ==
    LET key == ":val" \o ToString(f.valueIndex)
        hashName == "#attr" \o ToString(f.valueIndex)
    IN  Only({ IF value = "" THEN f
               ELSE [filterParts |->
                         Append(f.filterParts, hashName \o " " \o op \o " " \o key),
                     expressionAttributeValues |->
                         (key :> typedValue(targetAttribute, value))
                             @@ f.expressionAttributeValues,
                     expressionAttributeNames |-> f.expressionAttributeNames,
                     valueIndex |-> f.valueIndex + 1,
                     filterFound |-> TRUE]
               : value \in {removeQuotesFrom(trim(rawValue), 1)} })

\* processAndAddFilter: the filter variables after the call; it returned true
\* exactly when a part was added
processAndAddFilter(f, targetAttribute, op, rawValue) ==
    LET key == ":val" \o ToString(f.valueIndex)
        hashName == "#attr" \o ToString(f.valueIndex)
    IN  Only({ IF value = "" THEN f
               ELSE [filterParts |->
                         Append(f.filterParts, hashName \o " " \o op \o " " \o key),
                     expressionAttributeValues |->
                         (key :> typedValue(targetAttribute, value))
                             @@ f.expressionAttributeValues,
                     expressionAttributeNames |->
                         (hashName :> targetAttribute) @@ f.expressionAttributeNames,
                     valueIndex |-> f.valueIndex + 1,
                     filterFound |-> TRUE]
               : value \in {removeQuotesFrom(trim(rawValue), 1)} })

\* naturalOp testing the phrases "after" and "before" alone
naturalOpWithoutThan(operatorPhrase) ==
    IF includes(operatorPhrase, "after") THEN ">"
    ELSE IF includes(operatorPhrase, "before") THEN "<"
    ELSE "="

\* the operator of a natural-language operator phrase
naturalOp(operatorPhrase) ==
    IF includes(operatorPhrase, "after") \/ includes(operatorPhrase, "greater than") THEN ">"
    ELSE IF includes(operatorPhrase, "before") \/ includes(operatorPhrase, "less than") THEN "<"
    ELSE "="

\* step 1 of the cascade: the implied attribute with a natural-language operator
impliedStep(f, queryText, attributeNames) ==
    Only({ IF impliedTargetAttribute = <<>> THEN f
           ELSE Only({ IF m # <<>>
                       THEN processAndAddFilter(f, impliedTargetAttribute[1],
                                                naturalOp(toLowerCase(m[1])), m[2])
                       ELSE f
                       : m \in {naturalOpMatch(queryText)} })
           : impliedTargetAttribute \in {findBestAttributeMatch(queryText, attributeNames)} })

\* step 2 of the cascade resolving the whole text where line 426 resolves the token
explicitStepResolvingWholeText(f, queryText, attributeNames) ==
    IF f.filterFound THEN f
    ELSE Only({ IF m = <<>> THEN f
                ELSE Only({ IF matchedAttr # <<>>
                            THEN processAndAddFilter(f, matchedAttr[1], m[2], m[3])
                            ELSE f
                            : matchedAttr \in {findBestAttributeMatch(queryText,
                                                                      attributeNames)} })
                : m \in {explicitMatch(queryText)} })

\* step 2 of the cascade: attribute, operator, value
explicitStep(f, queryText, attributeNames) ==
    IF f.filterFound THEN f
    ELSE Only({ IF m = <<>> THEN f
                ELSE Only({ IF matchedAttr # <<>>
                            THEN processAndAddFilter(f, matchedAttr[1], m[2], m[3])
                            ELSE f
                            : matchedAttr \in {findBestAttributeMatch(m[1], attributeNames)} })
                : m \in {explicitMatch(queryText)} })

\* step 3 of the cascade without its guard !filterFound
simpleStepUnguarded(f, queryText, attributeNames) ==
    Only({ IF m = <<>> THEN f
           ELSE Only({ IF matchedAttr # <<>>
                       THEN processAndAddFilter(f, matchedAttr[1], "=", m[2])
                       ELSE f
                       : matchedAttr \in {findBestAttributeMatch(m[1], attributeNames)} })
           : m \in {simpleMatch(queryText)} })

\* step 3 of the cascade: attribute and value, equality implied
simpleStep(f, queryText, attributeNames) ==
    IF f.filterFound THEN f
    ELSE Only({ IF m = <<>> THEN f
                ELSE Only({ IF matchedAttr # <<>>
                            THEN processAndAddFilter(f, matchedAttr[1], "=", m[2])
                            ELSE f
                            : matchedAttr \in {findBestAttributeMatch(m[1], attributeNames)} })
                : m \in {simpleMatch(queryText)} })

\* cascade with valueIndex kept outside the call: it starts at the number of
\* filter parts the requests have built so far
cascadeWithSharedCounter(queryText, attributeNames) ==
    Only({ Only({ Only({ simpleStep(f2, queryText, attributeNames)
                         : f2 \in {explicitStep(f1, queryText, attributeNames)} })
                  : f1 \in {impliedStep(f0, queryText, attributeNames)} })
           : f0 \in {[NoFilter EXCEPT !.valueIndex =
                         Cardinality({q \in DOMAIN loc : loc[q].filter.filterFound})]} })

\* section B of smartQuery: the three steps in order
cascade(queryText, attributeNames) ==
    Only({ Only({ simpleStep(f2, queryText, attributeNames)
                  : f2 \in {explicitStep(f1, queryText, attributeNames)} })
           : f1 \in {impliedStep(NoFilter, queryText, attributeNames)} })

\* filterParts.join(" AND ")
RECURSIVE joinAnd(_)
joinAnd(parts) ==
    IF Len(parts) = 1 THEN parts[1]
    ELSE parts[1] \o " AND " \o joinAnd(Tail(parts))

(***************************************************************************)
(* The superlative path                                                    *)
(***************************************************************************)
\* attributeNames.filter(name contains 'amount' or 'value')
numericFields(attributeNames) ==
    SelectSeq(attributeNames,
              LAMBDA name : \/ includes(toLowerCase(name), "amount")
                            \/ includes(toLowerCase(name), "value"))

\* numericFields[0], or <<>> for null
numericFieldOf(attributeNames) ==
    Only({ IF Len(fields) > 0 THEN <<fields[1]>> ELSE <<>>
           : fields \in {numericFields(attributeNames)} })

isHighestQuery(lowerQuery) ==
    includes(lowerQuery, "highest") \/ includes(lowerQuery, "maximum")
        \/ includes(lowerQuery, "max")

isLowestQuery(lowerQuery) ==
    includes(lowerQuery, "lowest") \/ includes(lowerQuery, "minimum")
        \/ includes(lowerQuery, "min")

\* item[field], <<>> when the item has no such field
fieldOf(item, field) == IF field \in DOMAIN item THEN <<item[field]>> ELSE <<>>

\* the sort's comparison function is negative on (a, b): a goes before b
comesBefore(a, b, numericField, isHighest) ==
    Only({ IF isHighest THEN NumLess(key[2], key[1]) ELSE NumLess(key[1], key[2])
           : key \in {<<toSortKey(fieldOf(a, numericField)),
                        toSortKey(fieldOf(b, numericField))>>} })

\* x put into the sorted sequence, behind the items that it does not come before
RECURSIVE insertSorted(_, _, _, _)
insertSorted(sorted, x, numericField, isHighest) ==
    IF sorted = <<>> THEN <<x>>
    ELSE IF comesBefore(x, Head(sorted), numericField, isHighest)
    THEN <<x>> \o sorted
    ELSE <<Head(sorted)>> \o insertSorted(Tail(sorted), x, numericField, isHighest)

\* items.sort(...): Array.prototype.sort is stable
RECURSIVE sortItems(_, _, _)
sortItems(items, numericField, isHighest) ==
    IF items = <<>> THEN <<>>
    ELSE insertSorted(sortItems(SubSeq(items, 1, Len(items) - 1), numericField, isHighest),
                      items[Len(items)], numericField, isHighest)

\* items.slice(0, n) for n >= 0
slice(items, n) == SubSeq(items, 1, IF n < Len(items) THEN n ELSE Len(items))

\* params.limit || 1
limitOrOne(limit) == IF limit # <<>> /\ limit[1] # 0 THEN limit[1] ELSE 1

(***************************************************************************)
(* The store: DescribeTable and Scan of the DynamoDB client                *)
(***************************************************************************)
\* the characters of the modelled texts in code-point order
CharOrder == " -.0123456789ABCDEFGHIJKLMNOPQRSTUVWXYZ_abcdefghijklmnopqrstuvwxyz"

\* a < b for two strings, compared by code points
RECURSIVE StrLess(_, _)
StrLess(a, b) ==
    IF b = "" THEN FALSE
    ELSE IF a = "" THEN TRUE
    ELSE IF CharAt(a, 1) = CharAt(b, 1)
    THEN StrLess(SubSeq(a, 2, Len(a)), SubSeq(b, 2, Len(b)))
    ELSE IndexIn(CharAt(a, 1), CharOrder) < IndexIn(CharAt(b, 1), CharOrder)

ValueLess(a, b) == IF a.t = "number" THEN NumLess(a, b) ELSE StrLess(a.s, b.s)

\* the store's comparison "field op literal": false for a missing field and for
\* operands of different types
compares(field, op, literal) ==
    /\ field # <<>>
    /\ field[1].t = literal.t
    /\ CASE op = "="  -> field[1] = literal
         [] op = "<"  -> ValueLess(field[1], literal)
         [] op = ">"  -> ValueLess(literal, field[1])
         [] op = "<=" -> ~ValueLess(literal, field[1])
         [] op = ">=" -> ~ValueLess(field[1], literal)

\* the position of the first blank of s
firstBlank(s) == Least({i \in 1..Len(s) : CharAt(s, i) = " "})

\* the store's reading of a condition "#name op :value" against an item
satisfies(item, cmd) ==
    LET expr == cmd.FilterExpression
        b1 == firstBlank(expr)
        rest == SubSeq(expr, b1 + 1, Len(expr))
        b2 == firstBlank(rest)
        namePlaceholder == SubSeq(expr, 1, b1 - 1)
        op == SubSeq(rest, 1, b2 - 1)
        valuePlaceholder == SubSeq(rest, b2 + 1, Len(rest))
    IN  compares(fieldOf(item, cmd.ExpressionAttributeNames[namePlaceholder]), op,
                 cmd.ExpressionAttributeValues[valuePlaceholder])

\* the number of items one Scan call reads: a page, cut short by Limit
scanReads(st, cmd) ==
    LET page == IF st.pageSize < Len(st.table) THEN st.pageSize ELSE Len(st.table)
    IN  IF "Limit" \in DOMAIN cmd /\ cmd.Limit < page THEN cmd.Limit ELSE page

\* result.Items of one Scan call: the items of the first page that pass the filter
scanItems(st, cmd) ==
    LET read == SubSeq(st.table, 1, scanReads(st, cmd))
    IN  IF "FilterExpression" \in DOMAIN cmd
        THEN SelectSeq(read, LAMBDA item : satisfies(item, cmd))
        ELSE read

\* the store turns down a Scan whose Limit is below 1 (a validation error)
scanAccepted(cmd) == "Limit" \in DOMAIN cmd => cmd.Limit >= 1

(***************************************************************************)
(* The inputs of the model                                                 *)
(***************************************************************************)
MaxTableLen == 2   \* the longest table
MaxLimit == 2      \* the largest limit a request passes

Undefined == <<>>

\* the values of params.tableName
TableNames == {Undefined, <<Str("")>>, <<Str("Trades")>>}

\* the texts of params.queryText
QueryStrings ==
    { "highest amount", "lowest value", "Amount > 1000", "max Amount > 1000",
      "trades after 2025-02-25", "records from China", "xyz123 blah",
      "SourceCountry = China", "highest and lowest amount", "minimum",
      "TradeDate before 2025-02-30", "Amount >= 500", "max SourceCountry = China",
      "NetAmount > 1000", "from China", "admin Amount > 1000" }

\* the values of params.queryText: missing, empty, a text, or a number
QueryTexts == {Undefined, <<Str("")>>, <<Num(42)>>} \cup {<<Str(q)>> : q \in QueryStrings}

\* the values of params.limit
Limits == {Undefined} \cup {<<n>> : n \in 0..MaxLimit}

\* an attribute definition of a table description
Def(name) == <<[AttributeName |-> Str(name)]>>
DefsOf(names) == [isArray |-> TRUE, defs |-> [i \in 1..Len(names) |-> Def(names[i])]]

\* descResp.Table: undefined, without AttributeDefinitions, with well-formed
\* definitions, and with malformed ones (no array, a null element, a definition
\* without a name or with an empty name, a name that is no string)
TableDescriptions ==
    { Undefined,
      <<[TableName |-> "Trades"]>>,
      <<[TableName |-> "Trades",
         AttributeDefinitions |-> DefsOf(<<"TradeId", "Amount", "SourceCountry", "TradeDate">>)]>>,
      <<[TableName |-> "Trades",
         AttributeDefinitions |-> DefsOf(<<"TradeId", "SourceCountry", "TradeDate">>)]>>,
      <<[TableName |-> "Trades",
         AttributeDefinitions |-> DefsOf(<<"TradeId", "TotalValue", "Amount">>)]>>,
      <<[TableName |-> "Trades",
         AttributeDefinitions |-> DefsOf(<<"TradeId", "Amount", "NetAmount">>)]>>,
      <<[TableName |-> "Trades", AttributeDefinitions |-> DefsOf(<<>>)]>>,
      <<[TableName |-> "Trades", AttributeDefinitions |-> [isArray |-> FALSE]]>>,
      <<[TableName |-> "Trades",
         AttributeDefinitions |-> [isArray |-> TRUE, defs |-> <<Def("Amount"), <<>>>>]]>>,
      <<[TableName |-> "Trades",
         AttributeDefinitions |->
             [isArray |-> TRUE,
              defs |-> <<<<[AttributeType |-> "S"]>>, Def(""), Def("Amount")>>]]>>,
      <<[TableName |-> "Trades",
         AttributeDefinitions |->
             [isArray |-> TRUE, defs |-> <<Def("Amount"), <<[AttributeName |-> Num(7)]>>>>]]>> }

\* the records a table is made of
ItemPool ==
    { [TradeId |-> Str("t1"), Amount |-> Num(0 - 40), TotalValue |-> Str("12"),
       SourceCountry |-> Str("China"), TradeDate |-> Str("2025-01-15")],
      [TradeId |-> Str("t2"), Amount |-> Num(2000), TotalValue |-> Str("none"),
       SourceCountry |-> Str("India"), TradeDate |-> Str("2025-03-02")],
      [TradeId |-> Str("t3"), TotalValue |-> Num(9),
       SourceCountry |-> Str("China"), TradeDate |-> Str("2025-02-26")] }

\* the tables: the sequences of distinct records of up to MaxTableLen records
Tables ==
    UNION { {t \in [1..n -> ItemPool] : \A i, j \in 1..n : i # j => t[i] # t[j]}
            : n \in 0..MaxTableLen }

\* the errors a store call fails with (the message of the error)
StoreErrors == {"Rate exceeded", "Requested resource not found"}

(***************************************************************************)
(* smartQuery                                                              *)
(***************************************************************************)
\* a value is truthy: not undefined, not "", not 0
Truthy(v) ==
    /\ v # Undefined
    /\ (v[1].t = "string" => v[1].s # "")
    /\ (v[1].t = "number" => v[1].num # 0)

IsString(v) == v # Undefined /\ v[1].t = "string"

\* the locals of a request that has not passed the schema fetch
NoLocals ==
    [attributeNames |-> <<>>, numericField |-> <<>>, isHighest |-> FALSE,
     isLowest |-> FALSE, branch |-> "none", filter |-> NoFilter,
     filterExpression |-> Undefined]

Failure(errorType, message) ==
    [success |-> FALSE, items |-> <<>>, message |-> message, count |-> 0,
     errorType |-> errorType]

Returned(result) == [kind |-> "returned", result |-> result]
Raised(error) == [kind |-> "raised", error |-> error]
Pending == [kind |-> "pending"]

\* the replies of the store to a command
Threw(e) == [kind |-> "threw", error |-> e]
Replied(value) == [kind |-> "returned", value |-> value]

\* the ScanCommand of the superlative path with a Limit of one item
superlativeScanCommandLimited(tableName) ==
    [cmd |-> "Scan", TableName |-> tableName, Limit |-> 1]

\* the ScanCommand of the superlative path (line 331)
superlativeScanCommand(tableName) == [cmd |-> "Scan", TableName |-> tableName]

\* the ScanCommand of the filtered path: a property that is undefined is left out
filterScanCommand(tableName, filterExpression, f, limit) ==
    [cmd |-> "Scan", TableName |-> tableName, FilterExpression |-> filterExpression]
        @@ (IF DOMAIN f.expressionAttributeNames # {}
            THEN [ExpressionAttributeNames |-> f.expressionAttributeNames] ELSE EmptyObject)
        @@ (IF DOMAIN f.expressionAttributeValues # {}
            THEN [ExpressionAttributeValues |-> f.expressionAttributeValues] ELSE EmptyObject)
        @@ (IF limit # Undefined THEN [Limit |-> limit[1]] ELSE EmptyObject)

\* AttributeDefinitions.map(def => def.AttributeName).filter(name => name), for
\* an array without null elements: the names as values
definedNames(defs) ==
    LET names == [i \in 1..Len(defs) |->
                     IF "AttributeName" \in DOMAIN defs[i][1]
                     THEN <<defs[i][1].AttributeName>> ELSE Undefined]
        kept == SelectSeq(names, Truthy)
    IN  [i \in 1..Len(kept) |-> kept[i][1]]

\* What a stretch of smartQuery between two awaits does: where the request
\* stands after it, its locals, the command it sends to the store (<<>> for
\* none) and how the call has ended (Pending while it has not)
Step(nextPc, locals, send, out) ==
    [pc |-> nextPc, loc |-> locals, send |-> send, outcome |-> out]

Stop(locals, out) == Step("done", locals, <<>>, out)

\* enter with the validation of line 293 checking tableName alone
enterWithoutQueryCheck(p) ==
    IF ~Truthy(p.tableName)
    THEN Stop(NoLocals,
              Returned(Failure("InvalidArgument", "tableName and queryText are required")))
    ELSE Step("awaitSchema", NoLocals,
              <<[cmd |-> "DescribeTable", TableName |-> p.tableName[1].s]>>, Pending)

\* smartQuery from its entry to the first await or return (lines 289-304)
enter(p) ==
    IF ~Truthy(p.tableName) \/ ~Truthy(p.queryText)
    THEN Stop(NoLocals,
              Returned(Failure("InvalidArgument", "tableName and queryText are required")))
    ELSE Step("awaitSchema", NoLocals,
              <<[cmd |-> "DescribeTable", TableName |-> p.tableName[1].s]>>, Pending)

\* the locals of section A (lines 323-327)
superlativeLocals(attributeNames, lowerQuery) ==
    [attributeNames |-> attributeNames,
     numericField |-> numericFieldOf(attributeNames),
     isHighest |-> isHighestQuery(lowerQuery),
     isLowest |-> isLowestQuery(lowerQuery),
     branch |-> "superlative", filter |-> NoFilter, filterExpression |-> Undefined]

\* the locals after section B built the filter f (lines 448-450)
withFilter(locals, f) ==
    [locals EXCEPT !.branch = "cascade", !.filter = f,
                   !.filterExpression = IF Len(f.filterParts) > 0
                                        THEN <<joinAnd(f.filterParts)>> ELSE Undefined]

\* the condition of the superlative path without the test of numericField
superlativeAppliesWithoutField(isHighest, isLowest, numericField) ==
    isHighest \/ isLowest

\* the condition of the superlative path (line 329)
superlativeApplies(isHighest, isLowest, numericField) ==
    (isHighest \/ isLowest) /\ numericField # <<>>

\* finalScan without the test of line 456: with no filter expression built, the
\* table is scanned without a filter
finalScanUnconditional(p, locals) ==
    IF locals.filterExpression # Undefined /\ locals.filterExpression[1] # ""
    THEN Step("awaitScan", locals,
              <<filterScanCommand(p.tableName[1].s, locals.filterExpression[1],
                                  locals.filter, p.limit)>>, Pending)
    ELSE Step("awaitScan", [locals EXCEPT !.filterExpression = <<"">>],
              <<[cmd |-> "Scan", TableName |-> p.tableName[1].s]>>, Pending)

\* section C of smartQuery (lines 456-491, up to the await of the scan): the
\* filtered scan, or InvalidFilter when no filter expression was built
finalScan(p, locals) ==
    IF locals.filterExpression # Undefined /\ locals.filterExpression[1] # ""
    THEN Step("awaitScan", locals,
              <<filterScanCommand(p.tableName[1].s, locals.filterExpression[1],
                                  locals.filter, p.limit)>>, Pending)
    ELSE Stop(locals, Returned(Failure("InvalidFilter",
             "SmartQuery could not generate a valid filter expression from the natural language query. Please be more specific or use the exact attribute name.")))

\* sections A and B of smartQuery, inside its try block, for attribute names
\* that are strings (lines 323-491, up to the await of the scan)
interpret(p, attributeNames) ==
    Only({ IF superlativeApplies(locals.isHighest, locals.isLowest, locals.numericField)
           THEN Step("awaitScan", locals, <<superlativeScanCommand(p.tableName[1].s)>>,
                     Pending)
           ELSE Only({ finalScan(p, after)
                       : after \in {withFilter(locals,
                                               cascade(p.queryText[1].s, attributeNames))} })
           : locals \in {superlativeLocals(attributeNames, toLowerCase(p.queryText[1].s))} })

\* smartQuery from the return of getTableSchema to the next await, return or
\* throw (lines 304-491); tableSchema is <<>> for null or undefined
afterSchema(p, tableSchema) ==
    IF tableSchema = <<>> \/ "AttributeDefinitions" \notin DOMAIN tableSchema[1]
    THEN Stop(NoLocals, Returned(Failure("SchemaError",
             "Could not retrieve schema for table " \o p.tableName[1].s \o ".")))
    ELSE LET attrDefs == tableSchema[1].AttributeDefinitions IN
    IF ~attrDefs.isArray
    THEN Stop(NoLocals,
              Raised("TypeError: tableSchema.AttributeDefinitions.map is not a function"))
    ELSE IF \E i \in 1..Len(attrDefs.defs) : attrDefs.defs[i] = <<>>
    THEN Stop(NoLocals,
              Raised("TypeError: Cannot read properties of null (reading 'AttributeName')"))
    ELSE IF ~IsString(p.queryText)
    THEN Stop(NoLocals, Raised("TypeError: queryText.toLowerCase is not a function"))
    ELSE Only({ IF \E i \in 1..Len(names) : names[i].t # "string"
                THEN Stop(NoLocals, Returned(Failure("InternalError",
                         "SmartQuery failed: " \o "name.toLowerCase is not a function")))
                ELSE interpret(p, [i \in 1..Len(names) |-> names[i].s])
                : names \in {definedNames(attrDefs.defs)} })

\* superlativeResult with count taken from the scanned items, not from the slice
superlativeResultCountingAll(p, locals, items) ==
    Only({ [success |-> TRUE,
            items |-> slice(sorted, limitOrOne(p.limit)),
            message |-> "SmartQuery executed: returning "
                \o (IF locals.isHighest THEN "highest" ELSE "lowest")
                \o " " \o locals.numericField[1]
                \o " item(s) by scanning the table.",
            count |-> Len(items)]
           : sorted \in {sortItems(items, locals.numericField[1], locals.isHighest)} })

\* the result of the superlative path (lines 338-349): the scanned items
\* sorted, cut to params.limit || 1
superlativeResult(p, locals, items) ==
    Only({ [success |-> TRUE,
            items |-> slice(sorted, limitOrOne(p.limit)),
            message |-> "SmartQuery executed: returning "
                \o (IF locals.isHighest THEN "highest" ELSE "lowest")
                \o " " \o locals.numericField[1]
                \o " item(s) by scanning the table.",
            count |-> Len(slice(sorted, limitOrOne(p.limit)))]
           : sorted \in {sortItems(items, locals.numericField[1], locals.isHighest)} })

\* smartQuery from the return of the scan to its own return (lines 335-349 and
\* 473-480); items are the unmarshalled result.Items
afterScan(p, locals, items) ==
    IF locals.branch = "superlative"
    THEN Stop(locals, Returned(superlativeResult(p, locals, items)))
    ELSE Stop(locals, Returned(
                 [success |-> TRUE,
                  items |-> items,
                  message |-> "SmartQuery executed successfully on table "
                      \o p.tableName[1].s \o ". Filter: " \o locals.filterExpression[1],
                  count |-> Len(items)]))

\* the catch block with a fixed message, the error's text dropped
catchErrorWithoutText(locals, e) ==
    Stop(locals, Returned(Failure("InternalError", "SmartQuery failed")))

\* the catch block of smartQuery (lines 492-501), for an error with message e
catchError(locals, e) ==
    Stop(locals, Returned(Failure("InternalError", "SmartQuery failed: " \o e)))

\* Take with filterExpression kept outside the call: a request that builds a
\* filter expression overwrites the one the other request holds
TakeSharingFilterExpression(r, s, reply) ==
    /\ pc' = [pc EXCEPT ![r] = s.pc]
    /\ loc' = [q \in DOMAIN loc |->
                  IF q = r THEN s.loc
                  ELSE IF s.loc.filterExpression # Undefined
                  THEN [loc[q] EXCEPT !.filterExpression = s.loc.filterExpression]
                  ELSE loc[q]]
    /\ calls' = [calls EXCEPT ![r] = @ \o s.send]
    /\ replies' = [replies EXCEPT ![r] = @ \o reply]
    /\ outcome' = [outcome EXCEPT ![r] = s.outcome]
    /\ UNCHANGED <<store, params>>

\* request r takes the step s, after the store's reply to its last command
\* (<<>> where the step follows no command)
Take(r, s, reply) ==
    /\ pc' = [pc EXCEPT ![r] = s.pc]
    /\ loc' = [loc EXCEPT ![r] = s.loc]
    /\ calls' = [calls EXCEPT ![r] = @ \o s.send]
    /\ replies' = [replies EXCEPT ![r] = @ \o reply]
    /\ outcome' = [outcome EXCEPT ![r] = s.outcome]
    /\ UNCHANGED <<store, params>>

\* smartQuery is called
smartQueryEnter(r) ==
    /\ pc[r] = "start"
    /\ \E s \in {enter(params[r])} : Take(r, s, <<>>)

\* getTableSchema: the DescribeTable call returns the table description
DescribeTableReturns(r) ==
    /\ pc[r] = "awaitSchema"
    /\ \E s \in {afterSchema(params[r], store.description)} :
           Take(r, s, <<Replied(store.description)>>)

\* getTableSchema without its try/catch: the error of DescribeTable leaves
\* smartQuery, whose await of line 304 stands outside its try block
DescribeTableUncaught(r) ==
    /\ pc[r] = "awaitSchema"
    /\ \E e \in StoreErrors : \E s \in {Stop(NoLocals, Raised(e))} :
           Take(r, s, <<Threw(e)>>)

\* getTableSchema: the DescribeTable call throws; the catch block returns null
DescribeTableFails(r) ==
    /\ pc[r] = "awaitSchema"
    /\ \E e \in StoreErrors : \E s \in {afterSchema(params[r], <<>>)} :
           Take(r, s, <<Threw(e)>>)

\* the Scan call returns the items of the first page
ScanReturns(r) ==
    /\ pc[r] = "awaitScan"
    /\ scanAccepted(calls[r][Len(calls[r])])
    /\ \E items \in {scanItems(store, calls[r][Len(calls[r])])} :
       \E s \in {afterScan(params[r], loc[r], items)} : Take(r, s, <<Replied(items)>>)

\* a catch block that sends the failed scan once more
ScanFailsAndRetries(r) ==
    /\ pc[r] = "awaitScan"
    /\ Len(calls[r]) < 4
    /\ \E e \in StoreErrors :
           \E s \in {Step("awaitScan", loc[r], <<calls[r][Len(calls[r])]>>, Pending)} :
               Take(r, s, <<Threw(e)>>)

\* the Scan call throws
ScanFails(r) ==
    /\ pc[r] = "awaitScan"
    /\ \E e \in StoreErrors : \E s \in {catchError(loc[r], e)} : Take(r, s, <<Threw(e)>>)

\* the states in which the requests R have been made and none has run
InitWith(R) ==
    /\ store \in [description : TableDescriptions, table : Tables,
                  pageSize : 1..MaxTableLen]
    /\ params \in [R -> [tableName : TableNames, queryText : QueryTexts, limit : Limits]]
    /\ pc = [r \in R |-> "start"]
    /\ loc = [r \in R |-> NoLocals]
    /\ calls = [r \in R |-> <<>>]
    /\ replies = [r \in R |-> <<>>]
    /\ outcome = [r \in R |-> Pending]

\* the requests of the run: one call of smartQuery
Requests == {1}

Init == InitWith(Requests)

Next ==
    \E r \in Requests :
        \/ smartQueryEnter(r)
        \/ DescribeTableReturns(r)
        \/ DescribeTableFails(r)
        \/ ScanReturns(r)
        \/ ScanFails(r)

Spec == Init /\ [][Next]_vars

(***************************************************************************)
(* Properties of smartQuery                                                *)
(***************************************************************************)
\* request r has returned a result
HasReturned(r) == outcome[r].kind = "returned"

\* the commands of request r that are scans
scansOf(r) == SelectSeq(calls[r], LAMBDA c : c.cmd = "Scan")

\* an argument is missing or empty
MissingOrEmpty(v) == v = Undefined \/ v = <<Str("")>>

\* the result is the failure of the given type, with no items
IsFailure(result, errorType) ==
    /\ result.success = FALSE
    /\ "errorType" \in DOMAIN result /\ result.errorType = errorType
    /\ result.items = <<>>
    /\ result.count = 0

\* C1: a request whose tableName or queryText is missing or empty sends no
\* command to the store, neither a schema fetch nor a scan, and once it has run
\* it has returned success=false, errorType "InvalidArgument", no items, count 0.
C1_InvalidArgument ==
    \A r \in Requests :
        MissingOrEmpty(params[r].tableName) \/ MissingOrEmpty(params[r].queryText)
            => /\ calls[r] = <<>>
               /\ pc[r] \in {"start", "done"}
               /\ pc[r] = "done" =>
                      HasReturned(r) /\ IsFailure(outcome[r].result, "InvalidArgument")

\* a request with a table name and without a query text has run
C1_Witness ==
    \E r \in Requests :
        /\ params[r].tableName = <<Str("Trades")>>
        /\ params[r].queryText = Undefined
        /\ pc[r] = "done"
        /\ HasReturned(r)
        /\ outcome[r].result.errorType = "InvalidArgument"

\* C2: no call of smartQuery ends by raising an exception.
C2_NeverRaises == \A r \in Requests : outcome[r].kind # "raised"

\* the schema fetch of request r failed: the DescribeTable call threw, or the
\* description it returned is null or holds no attribute definitions
SchemaFetchFailed(r) ==
    /\ Len(replies[r]) >= 1
    /\ \/ replies[r][1].kind = "threw"
       \/ replies[r][1].value = Undefined
       \/ "AttributeDefinitions" \notin DOMAIN replies[r][1].value[1]

CascadeResolvedNothing(r) ==
    loc[r].branch = "cascade" /\ loc[r].filter.filterParts = <<>>

\* C4: a request whose cascade resolves no attribute, the superlative path not
\* applying, has returned success=false with errorType "InvalidFilter", no
\* items and count 0, and has sent no scan to the store.
C4_InvalidFilter ==
    \A r \in Requests :
        CascadeResolvedNothing(r)
            => /\ pc[r] = "done"
               /\ HasReturned(r)
               /\ IsFailure(outcome[r].result, "InvalidFilter")
               /\ scansOf(r) = <<>>

\* "xyz123 blah" against the trades schema ends in InvalidFilter
C4_Witness ==
    \E r \in Requests :
        /\ params[r].queryText = <<Str("xyz123 blah")>>
        /\ loc[r].attributeNames = <<"TradeId", "Amount", "SourceCountry", "TradeDate">>
        /\ CascadeResolvedNothing(r)
        /\ HasReturned(r) /\ outcome[r].result.errorType = "InvalidFilter"

\* the scan of request r threw the error e
ScanThrew(r, e) ==
    \E k \in 1..Len(replies[r]) :
        calls[r][k].cmd = "Scan" /\ replies[r][k] = Threw(e)

\* C5: a request whose scan threw, the filtered scan as well as the full scan
\* of the superlative path, has returned success=false with errorType
\* "InternalError", no items, count 0 and a message that holds the error's text.
C5_InternalError ==
    \A r \in Requests : \A e \in StoreErrors :
        ScanThrew(r, e)
            => /\ pc[r] = "done"
               /\ HasReturned(r)
               /\ IsFailure(outcome[r].result, "InternalError")
               /\ includes(outcome[r].result.message, e)

\* a request on the filtered path whose scan threw has returned
C5_WitnessFiltered ==
    \E r \in Requests :
        /\ loc[r].branch = "cascade" /\ ScanThrew(r, "Rate exceeded")
        /\ HasReturned(r)

\* the well-formed results
WellFormed(result) ==
    /\ DOMAIN result \in {{"success", "items", "message", "count"},
                          {"success", "items", "message", "count", "errorType"}}
    /\ result.success \in BOOLEAN
    /\ result.count = Len(result.items)
    /\ ~result.success =>
           /\ result.items = <<>>
           /\ result.count = 0
           /\ "errorType" \in DOMAIN result
           /\ result.errorType \in
                  {"InvalidArgument", "SchemaError", "InvalidFilter", "InternalError"}
    /\ result.success => "errorType" \notin DOMAIN result
    /\ Len(result.message) > 0

\* C6: every result smartQuery returns is well formed: count is the number of
\* items; a failure has no items, count 0 and one of the four error types; a
\* success has no errorType; the message is not empty.
C6_WellFormed ==
    \A r \in Requests : HasReturned(r) => WellFormed(outcome[r].result)

\* a success with items, cut by the limit of the superlative path
C6_Witness ==
    \E r \in Requests :
        /\ HasReturned(r)
        /\ outcome[r].result.success
        /\ outcome[r].result.count = 2
        /\ loc[r].branch = "superlative"

\* the name of a numeric attribute: it contains "amount" or "value"
NameIsNumeric(name) ==
    includes(toLowerCase(name), "amount") \/ includes(toLowerCase(name), "value")

\* the text contains a highest-class word / a lowest-class word
HasHighestWord(text) ==
    \E w \in {"highest", "maximum", "max"} : includes(toLowerCase(text), w)
HasLowestWord(text) ==
    \E w \in {"lowest", "minimum", "min"} : includes(toLowerCase(text), w)

\* request r has interpreted its query against the attribute names of the schema
HasInterpreted(r) == loc[r].branch # "none"

\* the superlative condition of request r
SuperlativeCondition(r) ==
    /\ HasInterpreted(r)
    /\ HasHighestWord(params[r].queryText[1].s) \/ HasLowestWord(params[r].queryText[1].s)
    /\ \E i \in 1..Len(loc[r].attributeNames) : NameIsNumeric(loc[r].attributeNames[i])

\* request r has returned the result of the superlative path
SuperlativeReturned(r) ==
    /\ loc[r].branch = "superlative"
    /\ HasReturned(r)
    /\ outcome[r].result.success

\* a goes strictly before b in the order of the request: by the numeric key of
\* field, descending when the query asks for the highest
GoesBefore(a, b, field, descending) ==
    IF descending
    THEN NumLess(toSortKey(fieldOf(b, field)), toSortKey(fieldOf(a, field)))
    ELSE NumLess(toSortKey(fieldOf(a, field)), toSortKey(fieldOf(b, field)))

Min(a, b) == IF a < b THEN a ELSE b

\* items are the first n of the scanned records in the order of the request
FirstOfSorted(items, scanned, n, field, descending) ==
    /\ Len(items) = Min(n, Len(scanned))
    /\ \A i, j \in 1..Len(items) :
           i < j => items[i] # items[j] /\ ~GoesBefore(items[j], items[i], field, descending)
    /\ \A i \in 1..Len(items) : \E k \in 1..Len(scanned) : scanned[k] = items[i]
    /\ \A k \in 1..Len(scanned) :
           (\A i \in 1..Len(items) : items[i] # scanned[k])
               => \A i \in 1..Len(items) : ~GoesBefore(scanned[k], items[i], field, descending)

\* the result of request r is what the superlative path promises for the limit n
SuperlativeResultFor(r, n) ==
    LET names == loc[r].attributeNames
        field == loc[r].numericField[1]
        result == outcome[r].result
    IN  /\ \E i \in 1..Len(names) :
               /\ names[i] = field
               /\ NameIsNumeric(names[i])
               /\ \A j \in 1..(i - 1) : ~NameIsNumeric(names[j])
        /\ toSortKey(<<>>) = Num(0)
        /\ toSortKey(<<Str("none")>>) = Num(0)
        /\ toSortKey(<<Str("12")>>) = Num(12)
        /\ FirstOfSorted(result.items, replies[r][2].value, n, field,
                         HasHighestWord(params[r].queryText[1].s))
        /\ result.count = Len(result.items)

\* C7: in the superlative path the sort key is the first attribute in schema
\* order whose name contains "amount" or "value", a missing or non-numeric key
\* counts as 0, and the returned items are the first limit (1 when limit is
\* absent) of the scanned records, ordered descending for a highest-class word
\* and ascending for a lowest-class word; count is the number of items returned.
C7_FirstLimitSorted ==
    \A r \in Requests :
        SuperlativeReturned(r) =>
            SuperlativeResultFor(r, IF params[r].limit = Undefined THEN 1
                                    ELSE params[r].limit[1])

\* C8: in the superlative path the first returned item holds the extreme of the
\* sort key over all records of the table: no record of the table goes before it.
C8_GlobalExtreme ==
    \A r \in Requests :
        SuperlativeReturned(r) /\ store.table # <<>> =>
            /\ outcome[r].result.items # <<>>
            /\ \A k \in 1..Len(store.table) :
                   ~GoesBefore(store.table[k], outcome[r].result.items[1],
                               loc[r].numericField[1],
                               HasHighestWord(params[r].queryText[1].s))

\* C9: a request in which the superlative condition holds sends exactly one
\* scan, which carries the table name and nothing else (no filter expression, no
\* placeholders, no limit), and it never runs the cascade: it builds no filter.
C9_OneUnfilteredScan ==
    \A r \in Requests :
        SuperlativeCondition(r) =>
            /\ loc[r].branch = "superlative"
            /\ loc[r].filter = NoFilter
            /\ loc[r].filterExpression = Undefined
            /\ scansOf(r) = <<[cmd |-> "Scan", TableName |-> params[r].tableName[1].s]>>

\* "max Amount > 1000", which names an attribute, an operator and a value, has
\* returned the result of the full scan
C9_Witness ==
    \E r \in Requests :
        /\ params[r].queryText = <<Str("max Amount > 1000")>>
        /\ SuperlativeCondition(r)
        /\ SuperlativeReturned(r)
        /\ outcome[r].result.count = 1

\* the query of request r holds a superlative word and the schema no numeric attribute
SuperlativeWithoutField(r) ==
    /\ HasInterpreted(r)
    /\ HasHighestWord(params[r].queryText[1].s) \/ HasLowestWord(params[r].queryText[1].s)
    /\ \A i \in 1..Len(loc[r].attributeNames) : ~NameIsNumeric(loc[r].attributeNames[i])

\* C10: a query with a superlative word against a schema without an attribute
\* whose name contains "amount" or "value" is handled by the cascade: no scan
\* without a filter is sent, and the request ends in InvalidFilter without a
\* scan or has sent one filtered scan.
C10_FallsThroughToCascade ==
    \A r \in Requests :
        SuperlativeWithoutField(r) =>
            /\ loc[r].branch = "cascade"
            /\ \A k \in 1..Len(scansOf(r)) : "FilterExpression" \in DOMAIN scansOf(r)[k]
            /\ \/ /\ scansOf(r) = <<>>
                  /\ HasReturned(r) /\ IsFailure(outcome[r].result, "InvalidFilter")
               \/ /\ Len(scansOf(r)) = 1
                  /\ scansOf(r)[1].FilterExpression = loc[r].filterExpression[1]

\* "max SourceCountry = China" against a schema without Amount has returned the
\* items of a filtered scan
C10_WitnessFiltered ==
    \E r \in Requests :
        /\ params[r].queryText = <<Str("max SourceCountry = China")>>
        /\ SuperlativeWithoutField(r)
        /\ HasReturned(r) /\ outcome[r].result.success
        /\ outcome[r].result.count >= 1
        /\ scansOf(r)[1].FilterExpression = "#attr0 = :val0"

\* the command of the filtered scan of request r, <<>> when it has sent none
FilteredScanOf(r) ==
    SelectSeq(calls[r], LAMBDA c : c.cmd = "Scan" /\ "FilterExpression" \in DOMAIN c)

\* request r has sent a scan with the one condition "attribute op value"
ScansWith(r, attribute, op, value) ==
    /\ loc[r].branch = "cascade"
    /\ loc[r].filter.filterParts = <<"#attr0 " \o op \o " :val0">>
    /\ Len(FilteredScanOf(r)) = 1
    /\ scansOf(r) = FilteredScanOf(r)
    /\ FilteredScanOf(r)[1].FilterExpression = "#attr0 " \o op \o " :val0"
    /\ FilteredScanOf(r)[1].ExpressionAttributeNames = ("#attr0" :> attribute)
    /\ FilteredScanOf(r)[1].ExpressionAttributeValues = (":val0" :> value)

\* the scan of request r has returned
ScanHasReturned(r) ==
    \E k \in 1..Len(replies[r]) : calls[r][k].cmd = "Scan" /\ replies[r][k].kind = "returned"

\* queries of the form "<attribute name> <op> <numeric literal>"
ExplicitNumericQueries ==
    { [text |-> "Amount > 1000", attribute |-> "Amount", op |-> ">", value |-> Num(1000)],
      [text |-> "Amount >= 500", attribute |-> "Amount", op |-> ">=", value |-> Num(500)],
      [text |-> "NetAmount > 1000", attribute |-> "NetAmount", op |-> ">",
       value |-> Num(1000)] }

\* the attribute names of request r, as a set
SchemaNames(r) == {loc[r].attributeNames[i] : i \in 1..Len(loc[r].attributeNames)}

\* C11: a query "<attribute name> <op> <numeric literal>" whose attribute is in
\* the schema yields the scan with the filter "#attr0 <op> :val0", #attr0 being
\* that attribute and :val0 that number, and success=true once the scan has
\* returned; so "Amount > 1000" against [TradeId, Amount, SourceCountry,
\* TradeDate] scans with #attr0 = Amount and :val0 = 1000.
C11_ExplicitNumericFilter ==
    \A r \in Requests : \A q \in ExplicitNumericQueries :
        /\ HasInterpreted(r)
        /\ params[r].queryText = <<Str(q.text)>>
        /\ q.attribute \in SchemaNames(r)
        => /\ ScansWith(r, q.attribute, q.op, q.value)
           /\ ScanHasReturned(r) => HasReturned(r) /\ outcome[r].result.success

\* the example of C11 alone: "Amount > 1000" against the trades schema
C11_AmountExample ==
    \A r \in Requests :
        /\ HasInterpreted(r)
        /\ params[r].queryText = <<Str("Amount > 1000")>>
        /\ loc[r].attributeNames = <<"TradeId", "Amount", "SourceCountry", "TradeDate">>
        => /\ ScansWith(r, "Amount", ">", Num(1000))
           /\ ScanHasReturned(r) => HasReturned(r) /\ outcome[r].result.success

\* C12: "trades after 2025-02-25" against [TradeId, Amount, SourceCountry,
\* TradeDate] resolves to TradeDate, with the operator ">" and the value
\* normalised to the string "2025-02-25": the scan is sent with the filter
\* TradeDate > "2025-02-25".
C12_TradesAfterDate ==
    \A r \in Requests :
        /\ HasInterpreted(r)
        /\ params[r].queryText = <<Str("trades after 2025-02-25")>>
        /\ loc[r].attributeNames = <<"TradeId", "Amount", "SourceCountry", "TradeDate">>
        => ScansWith(r, "TradeDate", ">", Str("2025-02-25"))

\* the default of the limit that the tool declares for smart_query
DefaultLimit == 100

\* C18: the filtered scan carries the limit of the request, and a limit of 100
\* when the request gives none.
C18_ScanLimit ==
    \A r \in Requests : \A k \in 1..Len(FilteredScanOf(r)) :
        /\ "Limit" \in DOMAIN FilteredScanOf(r)[k]
        /\ FilteredScanOf(r)[k].Limit =
               IF params[r].limit = Undefined THEN DefaultLimit ELSE params[r].limit[1]

\* the part of C18 about a limit that is given: it is passed to the scan
C18_GivenLimitPassed ==
    \A r \in Requests : \A k \in 1..Len(FilteredScanOf(r)) :
        params[r].limit # Undefined
            => /\ "Limit" \in DOMAIN FilteredScanOf(r)[k]
               /\ FilteredScanOf(r)[k].Limit = params[r].limit[1]

\* the informal queries for records of an origin
FromChinaQueries == {"records from China", "from China"}

\* C19: "records from China", and likewise "from China", against a schema with
\* SourceCountry yields the scan with the filter "#attr0 = :val0", #attr0 being
\* SourceCountry and :val0 the string "China".
C19_FromChina ==
    \A r \in Requests : \A q \in FromChinaQueries :
        /\ HasInterpreted(r)
        /\ params[r].queryText = <<Str(q)>>
        /\ "SourceCountry" \in SchemaNames(r)
        => ScansWith(r, "SourceCountry", "=", Str("China"))

\* the shorter query alone: "from China" yields the filter on SourceCountry
C19_ShortForm ==
    \A r \in Requests :
        /\ HasInterpreted(r)
        /\ params[r].queryText = <<Str("from China")>>
        /\ "SourceCountry" \in SchemaNames(r)
        => ScansWith(r, "SourceCountry", "=", Str("China"))

\* C20: the store operations of a request are ordered and not repeated: the
\* schema fetch is the first command and the only one of its kind, a scan is
\* sent only after the schema fetch has returned, at most one scan is sent, and
\* a scan that threw is not sent again: the request has ended with a result.
C20_StoreCallOrder ==
    \A r \in Requests :
        /\ Len(calls[r]) <= 2
        /\ Len(replies[r]) <= Len(calls[r])
        /\ \A k \in 1..Len(calls[r]) : calls[r][k].cmd = "DescribeTable" <=> k = 1
        /\ Len(scansOf(r)) <= 1
        /\ pc[r] \in {"awaitSchema", "awaitScan"} => Len(replies[r]) = Len(calls[r]) - 1
        /\ pc[r] = "done" => Len(replies[r]) = Len(calls[r])
        /\ Len(calls[r]) = 2 => replies[r][1].kind = "returned"
        /\ \A e \in StoreErrors :
               ScanThrew(r, e) => pc[r] = "done" /\ HasReturned(r) /\ Len(scansOf(r)) = 1

\* a request on the superlative path whose one scan threw has ended
C20_Witness ==
    \E r \in Requests :
        /\ loc[r].branch = "superlative"
        /\ Len(calls[r]) = 2 /\ calls[r][1].cmd = "DescribeTable" /\ calls[r][2].cmd = "Scan"
        /\ pc[r] = "done" /\ HasReturned(r)
        /\ Len(replies[r]) = 2
        /\ replies[r][1].kind = "returned" /\ replies[r][2].kind = "threw"

(***************************************************************************)
(* The helpers called on their own: a call of findBestAttributeMatch, of   *)
(* processAndAddFilter or of the cascade (section B of smartQuery).        *)
(* params[r] holds the name of the function and its arguments, outcome[r]  *)
(* what the call returns (for processAndAddFilter and the cascade the      *)
(* filter variables after the call); the store takes no part.              *)
(***************************************************************************)
\* the sequences that hold each element of S once
OrdersOf(S) ==
    {q \in [1..Cardinality(S) -> S] : \A i, j \in 1..Cardinality(S) : i # j => q[i] # q[j]}

\* the texts findBestAttributeMatch is called with
ResolverTexts ==
    { "Amount > 1000", "amount from China", "records from China", "NetAmount > 1000",
      "tradedate and amount", "when was the cost paid", "xyz123 blah", "trades",
      "SOURCECOUNTRY to India", "value of the day" }

\* the attribute lists findBestAttributeMatch is called with: every order of
\* some sets of names
ResolverAttributeSets ==
    { {"Amount", "SourceCountry", "TradeDate"},
      {"Amount", "NetAmount", "TradeDate"},
      {"TradeId", "DestinationCountry"},
      {"DataSource", "SourceCountry"} }

ResolverAttributeLists == UNION {OrdersOf(S) : S \in ResolverAttributeSets}

\* the filter variables processAndAddFilter is called with: none added yet, one added
FiltersBefore ==
    { NoFilter,
      [filterParts |-> <<"#attr0 > :val0">>,
       expressionAttributeNames |-> ("#attr0" :> "Amount"),
       expressionAttributeValues |-> (":val0" :> Num(1000)),
       valueIndex |-> 1,
       filterFound |-> TRUE] }

\* dates of the calendar, as YYYY-MM-DD
ValidDates == {"2025-02-25", "2024-02-29", "1999-12-31"}

\* a text as a raw value of a match: bare, with white space around it, quoted
RawForms(text) == {text, " " \o text \o " ", "'" \o text \o "'"}

\* raw values handed to processAndAddFilter.  The value groups of the three
\* cascade patterns admit letters, digits, white space, "." and "-" only, so a
\* raw value holds no "/" and a date in it is written with "-".
RawValues ==
    UNION {RawForms(d) : d \in ValidDates}
        \cup {"2025-02-30", "2025-13-01", "2025-02-25 please", "2025", "1000", "China", " ",
              "1000 units"}

TargetAttributes == {"TradeDate", "UpdateTime", "Amount", "SourceCountry"}

\* the texts the cascade is called with.  For step 1: a lead that names an
\* attribute, a keyword or neither, a phrase of the natural pattern, one space
\* and a value
NaturalLeads == {"Amount ", "when ", "trades ", "TradeDate "}
NaturalPhrases == {"after", "before", "less than", "greater than", "Greater Than"}
NaturalValues == {"500", "2025-02-25", " ", "tax due"}

NaturalTexts ==
    {lead \o phrase \o " " \o value
         : <<lead, phrase, value>> \in NaturalLeads \X NaturalPhrases \X NaturalValues}

\* for step 2: a lead, a token, an operator with or without white space around
\* it, and a value
ExplicitLeads == {"", "SourceCountry China "}
ExplicitTokens == {"Amount", "cost", "NetAmount", "xyz"}
ExplicitGaps == {"", " "}
ExplicitValues == {"500", "China"}

ExplicitTexts ==
    {lead \o token \o gap \o op \o gap \o value
         : <<lead, token, gap, op, value>> \in
               ExplicitLeads \X ExplicitTokens \X ExplicitGaps
                   \X {explicitOperators[k] : k \in 1..Len(explicitOperators)}
                   \X ExplicitValues}

\* for step 3, and texts no step accepts
SimpleTexts ==
    {"SourceCountry China", "records from China", "from China", "xyz123 blah",
     "Amount", "cost  ", "TradeDate 2025-02-25"}

CascadeTexts == NaturalTexts \cup ExplicitTexts \cup SimpleTexts

\* the attribute lists the cascade is called with
CascadeAttributeLists ==
    { <<"TradeId", "Amount", "SourceCountry", "TradeDate">>,
      <<"TradeId", "SourceCountry", "TradeDate">>,
      <<"TradeId", "NetAmount", "Amount">> }

HelperCalls ==
    [fn : {"findBestAttributeMatch"}, queryText : ResolverTexts,
     attributeNames : ResolverAttributeLists]
    \cup [fn : {"processAndAddFilter"}, f : FiltersBefore,
          targetAttribute : TargetAttributes, op : {">", "="}, rawValue : RawValues]
    \cup [fn : {"cascade"}, queryText : CascadeTexts, attributeNames : CascadeAttributeLists]

HelperInit ==
    /\ store = [description |-> Undefined, table |-> <<>>, pageSize |-> 1]
    /\ params \in [Requests -> HelperCalls]
    /\ pc = [r \in Requests |-> "start"]
    /\ loc = [r \in Requests |-> NoLocals]
    /\ calls = [r \in Requests |-> <<>>]
    /\ replies = [r \in Requests |-> <<>>]
    /\ outcome = [r \in Requests |-> Pending]

\* the helper call r returns the value v
HelperReturns(r, v) ==
    /\ pc' = [pc EXCEPT ![r] = "done"]
    /\ outcome' = [outcome EXCEPT ![r] = Returned(v)]
    /\ UNCHANGED <<store, params, loc, calls, replies>>

findBestAttributeMatchCall(r) ==
    /\ pc[r] = "start"
    /\ params[r].fn = "findBestAttributeMatch"
    /\ \E v \in {findBestAttributeMatch(params[r].queryText, params[r].attributeNames)} :
           HelperReturns(r, v)

processAndAddFilterCall(r) ==
    /\ pc[r] = "start"
    /\ params[r].fn = "processAndAddFilter"
    /\ \E v \in {processAndAddFilter(params[r].f, params[r].targetAttribute,
                                     params[r].op, params[r].rawValue)} :
           HelperReturns(r, v)

\* section B of smartQuery called on its own: the filter variables after it
cascadeCall(r) ==
    /\ pc[r] = "start"
    /\ params[r].fn = "cascade"
    /\ \E v \in {cascade(params[r].queryText, params[r].attributeNames)} :
           HelperReturns(r, v)

HelperNext ==
    \E r \in Requests :
        \/ findBestAttributeMatchCall(r)
        \/ processAndAddFilterCall(r)
        \/ cascadeCall(r)

HelperSpec == HelperInit /\ [][HelperNext]_vars

\* the helper call r was a call of fn and has returned
HelperDone(r, fn) == params[r].fn = fn /\ pc[r] = "done" /\ HasReturned(r)

\* the attribute name occurs verbatim in the text, case ignored
Verbatim(text, name) == includes(toLowerCase(text), toLowerCase(name))

\* the positions of the names of the list that occur verbatim in the text
VerbatimAt(text, names) == {i \in 1..Len(names) : Verbatim(text, names[i])}

\* the date rule applies to the attribute name
IsDateName(name) ==
    includes(toLowerCase(name), "date") \/ includes(toLowerCase(name), "time")

\* C13: a triple whose attribute name contains "date" or "time" and whose raw
\* value is a valid date YYYY-MM-DD (bare, padded or quoted) is accepted with
\* the string YYYY-MM-DD as its typed literal, never with a number.
C13_DateBeforeNumber ==
    \A r \in Requests : \A d \in ValidDates :
        /\ HelperDone(r, "processAndAddFilter")
        /\ IsDateName(params[r].targetAttribute)
        /\ params[r].rawValue \in RawForms(d)
        => LET key == ":val" \o ToString(params[r].f.valueIndex)
               after == outcome[r].result
           IN  /\ after.filterFound
               /\ key \in DOMAIN after.expressionAttributeValues
               /\ after.expressionAttributeValues[key] = Str(d)
               /\ after.expressionAttributeValues[key].t # "number"

\* TradeDate with the raw value "2025-02-25" has been typed as "2025-02-25"
C13_Witness ==
    \E r \in Requests :
        /\ HelperDone(r, "processAndAddFilter")
        /\ params[r].targetAttribute = "TradeDate"
        /\ params[r].rawValue = "2025-02-25"
        /\ params[r].f = NoFilter
        /\ outcome[r].result.expressionAttributeValues = (":val0" :> Str("2025-02-25"))

\* C14: when the text holds some attribute name verbatim, the resolver returns
\* the first attribute in schema order that the text holds verbatim, whatever
\* the keyword rules would select.
C14_DirectMatchWins ==
    \A r \in Requests :
        /\ HelperDone(r, "findBestAttributeMatch")
        /\ VerbatimAt(params[r].queryText, params[r].attributeNames) # {}
        => \E i \in VerbatimAt(params[r].queryText, params[r].attributeNames) :
               /\ outcome[r].result = <<params[r].attributeNames[i]>>
               /\ \A j \in VerbatimAt(params[r].queryText, params[r].attributeNames) : i <= j

\* "amount from China" with SourceCountry listed before Amount: the keyword
\* "from" selects SourceCountry, and the resolver has returned Amount
C14_Witness ==
    \E r \in Requests :
        /\ HelperDone(r, "findBestAttributeMatch")
        /\ params[r].queryText = "amount from China"
        /\ params[r].attributeNames = <<"SourceCountry", "Amount", "TradeDate">>
        /\ keywordLoop(toLowerCase(params[r].queryText), params[r].attributeNames, 1)
               = <<"SourceCountry">>
        /\ outcome[r].result = <<"Amount">>

\* the names of a list, as a set
NamesOf(names) == {names[i] : i \in 1..Len(names)}

\* C15: when exactly one attribute name occurs verbatim in the text, the
\* resolver returns that name for every order of the attribute list; when two
\* or more occur, it returns the one that comes first in the list.
C15_OrderOfAttributes ==
    \A r \in Requests :
        HelperDone(r, "findBestAttributeMatch") =>
            LET text == params[r].queryText
                names == params[r].attributeNames
                at == VerbatimAt(text, names)
            IN  /\ Cardinality(at) = 1 =>
                       \A q \in OrdersOf(NamesOf(names)) :
                           /\ findBestAttributeMatch(text, q) = outcome[r].result
                           /\ outcome[r].result = <<names[CHOOSE i \in at : TRUE]>>
                /\ Cardinality(at) >= 2 =>
                       outcome[r].result = <<names[CHOOSE i \in at : \A j \in at : i <= j]>>

\* "tradedate and amount" holds two names: with TradeDate listed before Amount
\* the resolver has returned TradeDate
C15_WitnessTwoNames ==
    \E r \in Requests :
        /\ HelperDone(r, "findBestAttributeMatch")
        /\ params[r].queryText = "tradedate and amount"
        /\ params[r].attributeNames = <<"SourceCountry", "TradeDate", "Amount">>
        /\ Cardinality(VerbatimAt(params[r].queryText, params[r].attributeNames)) = 2
        /\ outcome[r].result = <<"TradeDate">>

(***************************************************************************)
(* Two calls of smartQuery against one store                               *)
(***************************************************************************)
\* the two requests
Pair == {1, 2}

\* the arguments of the two calls: an explicit filter on a number and on a
\* string, a superlative, and a text that resolves to nothing
PairQueries == {"Amount > 1000", "highest amount", "xyz123 blah", "SourceCountry = China"}

PairParams ==
    [tableName : {<<Str("Trades")>>},
     queryText : {<<Str(q)>> : q \in PairQueries},
     limit : {Undefined, <<1>>}]

\* the store of the two calls: a well-formed description, a table of two records
PairStores ==
    [description : {<<[TableName |-> "Trades",
                       AttributeDefinitions |->
                           DefsOf(<<"TradeId", "Amount", "SourceCountry", "TradeDate">>)]>>},
     table : {t \in Tables : Len(t) = Cardinality(Pair)},
     pageSize : Pair]

\* the two requests have been made and none has run
PairInit ==
    /\ store \in PairStores
    /\ params \in [Pair -> PairParams]
    /\ pc = [r \in Pair |-> "start"]
    /\ loc = [r \in Pair |-> NoLocals]
    /\ calls = [r \in Pair |-> <<>>]
    /\ replies = [r \in Pair |-> <<>>]
    /\ outcome = [r \in Pair |-> Pending]

\* two identical calls
SequentialInit == PairInit /\ params[1] = params[2]

\* one call after the other: the second is made when the first has ended
InTurn(r) == r = 1 \/ pc[1] = "done"

SequentialNext ==
    \E r \in Pair :
        \/ InTurn(r) /\ smartQueryEnter(r)
        \/ InTurn(r) /\ DescribeTableReturns(r)
        \/ InTurn(r) /\ DescribeTableFails(r)
        \/ InTurn(r) /\ ScanReturns(r)
        \/ InTurn(r) /\ ScanFails(r)

SequentialSpec == SequentialInit /\ [][SequentialNext]_vars

\* two calls whose stretches between awaits interleave in any order
ConcurrentNext ==
    \E r \in Pair :
        \/ smartQueryEnter(r)
        \/ DescribeTableReturns(r)
        \/ DescribeTableFails(r)
        \/ ScanReturns(r)
        \/ ScanFails(r)

ConcurrentSpec == PairInit /\ [][ConcurrentNext]_vars

\* smartQuery called with p by itself against the store st, as far as the
\* store's replies rs take it: where it stands, the commands it has sent and
\* how it has ended
AloneRun(p, st, rs) ==
    Only({ IF s0.pc = "done" \/ Len(rs) = 0
           THEN [pc |-> s0.pc, calls |-> s0.send, outcome |-> s0.outcome]
           ELSE Only({ IF s1.pc = "done" \/ Len(rs) = 1
                       THEN [pc |-> s1.pc, calls |-> s0.send \o s1.send,
                             outcome |-> s1.outcome]
                       ELSE Only({ [pc |-> s2.pc, calls |-> s0.send \o s1.send \o s2.send,
                                    outcome |-> s2.outcome]
                                   : s2 \in {IF rs[2].kind = "threw"
                                             THEN catchError(s1.loc, rs[2].error)
                                             ELSE afterScan(p, s1.loc,
                                                            scanItems(st, s1.send[1]))} })
                       : s1 \in {IF rs[1].kind = "threw"
                                 THEN afterSchema(p, <<>>)
                                 ELSE afterSchema(p, st.description)} })
           : s0 \in {enter(p)} })

\* the store's replies to request r that are no errors are the store's answers
AnsweredByStore(r) ==
    \A i \in 1..Len(replies[r]) :
        replies[r][i].kind = "returned" =>
            replies[r][i].value = IF calls[r][i].cmd = "DescribeTable"
                                  THEN store.description
                                  ELSE scanItems(store, calls[r][i])

\* the filtered scans among the commands of request r
FilteredScans(r) ==
    {i \in 1..Len(calls[r]) : "FilterExpression" \in DOMAIN calls[r][i]}

\* C16: two identical calls made one after the other against the same schema
\* and store contents, answered alike by the store, return identical results
\* and send identical commands, and the placeholders of a filtered scan are
\* #attr0 and :val0 in both.
C16_Idempotent ==
    /\ pc[1] = "done" /\ pc[2] = "done"
    /\ params[1] = params[2]
    /\ replies[1] = replies[2]
    => /\ outcome[1] = outcome[2]
       /\ calls[1] = calls[2]
       /\ \A r \in Pair : \A i \in FilteredScans(r) :
              /\ DOMAIN calls[r][i].ExpressionAttributeNames = {"#attr0"}
              /\ DOMAIN calls[r][i].ExpressionAttributeValues = {":val0"}

\* "Amount > 1000" has been asked twice and has ended in a filtered scan that
\* returned items both times
C16_Witness ==
    /\ pc[1] = "done" /\ pc[2] = "done"
    /\ params[1] = params[2]
    /\ params[1].queryText = <<Str("Amount > 1000")>>
    /\ replies[1] = replies[2]
    /\ FilteredScans(1) # {} /\ FilteredScans(2) # {}
    /\ HasReturned(1) /\ outcome[1].result.success /\ outcome[1].result.count > 0
    /\ outcome[2] = outcome[1]

\* C17: of two requests interleaved at their awaits in any order, each stands
\* where it stands when it runs alone against the same store with the same
\* replies, has sent the same commands and has ended the same way.
C17_Independent ==
    \A r \in Pair :
        pc[r] # "start" =>
            /\ AnsweredByStore(r)
            /\ [pc |-> pc[r], calls |-> calls[r], outcome |-> outcome[r]]
                   = AloneRun(params[r], store, replies[r])

\* both requests are suspended at their scans at once, one with the filter of
\* "Amount > 1000" and one with the filter of "SourceCountry = China"
C17_WitnessBothSuspended ==
    /\ pc[1] = "awaitScan" /\ pc[2] = "awaitScan"
    /\ params[1].queryText = <<Str("Amount > 1000")>>
    /\ params[2].queryText = <<Str("SourceCountry = China")>>
    /\ loc[1].filter.expressionAttributeNames = ("#attr0" :> "Amount")
    /\ loc[2].filter.expressionAttributeNames = ("#attr0" :> "SourceCountry")

\* the comparison operators of a filter condition
ComparisonOperators == {"=", ">", "<", ">=", "<="}

\* the property of a command, or the empty object where the command has none
PropertyOf(cmd, name) == IF name \in DOMAIN cmd THEN cmd[name] ELSE EmptyObject

\* C21: a filtered scan is sent with the expression "#attr0 <op> :val0", <op>
\* one of =, >, <, >=, <=, with a name map whose one key is #attr0 and a value
\* map whose one key is :val0.
C21_PlaceholdersMapped ==
    \A r \in Requests : \A i \in FilteredScans(r) :
        /\ \E op \in ComparisonOperators :
               calls[r][i].FilterExpression = "#attr0 " \o op \o " :val0"
        /\ DOMAIN PropertyOf(calls[r][i], "ExpressionAttributeNames") = {"#attr0"}
        /\ DOMAIN PropertyOf(calls[r][i], "ExpressionAttributeValues") = {":val0"}

\* "Amount >= 500" has been sent as a filtered scan with both maps
C21_Witness ==
    \E r \in Requests : \E i \in FilteredScans(r) :
        /\ params[r].queryText = <<Str("Amount >= 500")>>
        /\ calls[r][i].FilterExpression = "#attr0 >= :val0"
        /\ calls[r][i].ExpressionAttributeNames = ("#attr0" :> "Amount")
        /\ calls[r][i].ExpressionAttributeValues = (":val0" :> Num(500))

\* a raw value as processAndAddFilter cleans it (line 362)
Cleaned(rawValue) == removeQuotesFrom(trim(rawValue), 1)

\* what a strategy yields: <<triple>> when it resolves an attribute and finds a
\* value that is not empty, <<>> otherwise
Yield(attribute, op, rawValue) ==
    IF attribute # <<>> /\ Cleaned(rawValue) # ""
    THEN <<[attribute |-> attribute[1], op |-> op, rawValue |-> rawValue]>>
    ELSE <<>>

\* strategy a: the attribute implied by the whole text, a natural operator phrase
StrategyA(text, names) ==
    LET m == naturalOpMatch(text)
    IN  IF m = <<>> THEN <<>>
        ELSE Yield(findBestAttributeMatch(text, names), naturalOp(toLowerCase(m[1])), m[2])

\* strategy b: a token, an operator, a value
StrategyB(text, names) ==
    LET m == explicitMatch(text)
    IN  IF m = <<>> THEN <<>>
        ELSE Yield(findBestAttributeMatch(m[1], names), m[2], m[3])

\* strategy c: a token and a value
StrategyC(text, names) ==
    LET m == simpleMatch(text)
    IN  IF m = <<>> THEN <<>>
        ELSE Yield(findBestAttributeMatch(m[1], names), "=", m[2])

\* the filter variables of a request that has accepted the one triple
FilterFor(triple) ==
    [filterParts |-> <<"#attr0 " \o triple.op \o " :val0">>,
     expressionAttributeNames |-> ("#attr0" :> triple.attribute),
     expressionAttributeValues |->
         (":val0" :> typedValue(triple.attribute, Cleaned(triple.rawValue))),
     valueIndex |-> 1,
     filterFound |-> TRUE]

\* C22: the cascade accepts the triple of the first of the strategies a, b, c
\* that yields one and nothing else: at most one triple per request, and the
\* triple of strategy c only when a and b yielded none.
C22_FirstStrategyWins ==
    \A r \in Requests :
        HelperDone(r, "cascade") =>
            LET a == StrategyA(params[r].queryText, params[r].attributeNames)
                b == StrategyB(params[r].queryText, params[r].attributeNames)
                c == StrategyC(params[r].queryText, params[r].attributeNames)
                f == outcome[r].result
            IN  /\ Len(f.filterParts) <= 1
                /\ f = IF a # <<>> THEN FilterFor(a[1])
                       ELSE IF b # <<>> THEN FilterFor(b[1])
                       ELSE IF c # <<>> THEN FilterFor(c[1])
                       ELSE NoFilter

\* "TradeDate before 2025-02-25": strategies a and c both yield a triple, and
\* the cascade has accepted the one of strategy a
C22_Witness ==
    \E r \in Requests :
        /\ HelperDone(r, "cascade")
        /\ params[r].queryText = "TradeDate before 2025-02-25"
        /\ StrategyA(params[r].queryText, params[r].attributeNames) # <<>>
        /\ StrategyC(params[r].queryText, params[r].attributeNames) # <<>>
        /\ outcome[r].result.filterParts = <<"#attr0 < :val0">>
        /\ outcome[r].result.expressionAttributeValues = (":val0" :> Str("2025-02-25"))

\* the operator the phrase stands for
PhraseOperator(phrase) ==
    IF toLowerCase(phrase) \in {"after", "greater than"} THEN ">" ELSE "<"

\* C23: when the whole text resolves to an attribute and holds one of the
\* phrases after, before, less than, greater than followed by a value that is
\* not empty, the accepted triple has that attribute, ">" for after and greater
\* than, "<" for before and less than, and the text after the phrase as value.
C23_NaturalOperator ==
    \A r \in Requests :
        HelperDone(r, "cascade") =>
            \A lead \in NaturalLeads : \A phrase \in NaturalPhrases :
            \A value \in NaturalValues :
                LET resolved == findBestAttributeMatch(params[r].queryText,
                                                       params[r].attributeNames)
                IN  /\ params[r].queryText = lead \o phrase \o " " \o value
                    /\ resolved # <<>>
                    /\ trim(value) # ""
                    => outcome[r].result =
                           FilterFor([attribute |-> resolved[1],
                                      op |-> PhraseOperator(phrase),
                                      rawValue |-> value])

\* "when Greater Than 500" against a schema with TradeDate: the keyword "when"
\* resolves to TradeDate and the cascade has accepted TradeDate > 500
C23_Witness ==
    \E r \in Requests :
        /\ HelperDone(r, "cascade")
        /\ params[r].queryText = "when Greater Than 500"
        /\ findBestAttributeMatch(params[r].queryText, params[r].attributeNames)
               = <<"TradeDate">>
        /\ outcome[r].result.filterParts = <<"#attr0 > :val0">>
        /\ outcome[r].result.expressionAttributeNames = ("#attr0" :> "TradeDate")
        /\ outcome[r].result.expressionAttributeValues = (":val0" :> Num(500))

\* the operators of the explicit pattern
ExplicitOperatorSet == {explicitOperators[k] : k \in 1..Len(explicitOperators)}

\* C24: for a text "<token> <op> <value>" in which the token resolves to an
\* attribute, the accepted triple has exactly the operator written, >=, <=, >,
\* < or =, and the attribute the token alone resolves to.
C24_ExplicitOperator ==
    \A r \in Requests :
        HelperDone(r, "cascade") =>
            \A lead \in ExplicitLeads : \A token \in ExplicitTokens :
            \A gap \in ExplicitGaps : \A op \in ExplicitOperatorSet :
            \A value \in ExplicitValues :
                LET resolved == findBestAttributeMatch(token, params[r].attributeNames)
                IN  /\ params[r].queryText = lead \o token \o gap \o op \o gap \o value
                    /\ resolved # <<>>
                    => outcome[r].result =
                           FilterFor([attribute |-> resolved[1], op |-> op,
                                      rawValue |-> value])

\* "SourceCountry China cost>=500": the whole text resolves to SourceCountry,
\* the token "cost" to Amount, and the cascade has accepted Amount >= 500
C24_Witness ==
    \E r \in Requests :
        /\ HelperDone(r, "cascade")
        /\ params[r].queryText = "SourceCountry China cost>=500"
        /\ findBestAttributeMatch(params[r].queryText, params[r].attributeNames)
               = <<"SourceCountry">>
        /\ outcome[r].result.filterParts = <<"#attr0 >= :val0">>
        /\ outcome[r].result.expressionAttributeNames = ("#attr0" :> "Amount")
        /\ outcome[r].result.expressionAttributeValues = (":val0" :> Num(500))

\* the keyword classes as the specification lists them: trigger words and
\* fragments of origin, destination, monetary, temporal, categorical
KeywordClasses ==
    << [triggers |-> {"from", "source"}, fragments |-> <<"source", "from">>],
       [triggers |-> {"to", "destination"}, fragments |-> <<"destination", "to">>],
       [triggers |-> {"amt", "cost", "price", "value"},
        fragments |-> <<"amount", "cost", "price", "value">>],
       [triggers |-> {"when", "day", "time", "period"}, fragments |-> <<"date", "timestamp">>],
       [triggers |-> {"type", "category"}, fragments |-> <<"type", "category">>] >>

\* the positions of the names that contain the fragment
Containing(names, fragment) ==
    {i \in 1..Len(names) : includes(toLowerCase(names[i]), fragment)}

\* the class fires on the text and some name contains one of its fragments
ClassYields(class, text, names) ==
    /\ \E w \in class.triggers : MatchesWord(toLowerCase(text), w)
    /\ \E k \in 1..Len(class.fragments) : Containing(names, class.fragments[k]) # {}

\* the first name that contains the first fragment of the class some name contains
ClassChoice(class, names) ==
    LET k == Least({j \in 1..Len(class.fragments) : Containing(names, class.fragments[j]) # {}})
    IN  names[Least(Containing(names, class.fragments[k]))]

\* what the keyword-class table returns for a text
TableChoice(text, names) ==
    LET yielding == {c \in 1..Len(KeywordClasses) : ClassYields(KeywordClasses[c], text, names)}
    IN  IF yielding = {} THEN <<>>
        ELSE <<ClassChoice(KeywordClasses[Least(yielding)], names)>>

\* C25: for a text that holds no attribute name verbatim, the resolver returns
\* what the keyword-class table returns (first class in the order origin,
\* destination, monetary, temporal, categorical that fires and has a name for
\* one of its fragments; first such fragment; first name containing it), no
\* match when no class yields one, and never a name outside attributeNames.
C25_KeywordTable ==
    \A r \in Requests :
        /\ HelperDone(r, "findBestAttributeMatch")
        /\ VerbatimAt(params[r].queryText, params[r].attributeNames) = {}
        => /\ outcome[r].result = TableChoice(params[r].queryText, params[r].attributeNames)
           /\ outcome[r].result # <<>> =>
                  outcome[r].result[1] \in NamesOf(params[r].attributeNames)

\* whatever the resolver returns is one of the attribute names, and it returns
\* no match exactly when the table does
C25_MemberAndNoMatch ==
    \A r \in Requests :
        /\ HelperDone(r, "findBestAttributeMatch")
        /\ VerbatimAt(params[r].queryText, params[r].attributeNames) = {}
        => /\ outcome[r].result = <<>>
               <=> TableChoice(params[r].queryText, params[r].attributeNames) = <<>>
           /\ outcome[r].result # <<>> =>
                  outcome[r].result[1] \in NamesOf(params[r].attributeNames)

\* the text is a date of the calendar written YYYY-MM-DD
IsCalendarDate(value) ==
    /\ Len(value) = 10 /\ datePatternAt(value, 1)
    /\ CharAt(value, 5) = "-" /\ CharAt(value, 8) = "-"
    /\ digitsValue(value, 6, 7) \in 1..12
    /\ digitsValue(value, 9, 10) >= 1
    /\ digitsValue(value, 9, 10)
           <= daysInMonth(digitsValue(value, 1, 4), digitsValue(value, 6, 7))

\* the processAndAddFilter call r had a date/time-named attribute and a value
\* that matches the date pattern and is no date of the calendar
DateShapedNoDate(r) ==
    /\ HelperDone(r, "processAndAddFilter")
    /\ IsDateName(params[r].targetAttribute)
    /\ matchesDatePattern(Cleaned(params[r].rawValue))
    /\ ~IsCalendarDate(Cleaned(params[r].rawValue))

\* the typed literal the processAndAddFilter call r has added
LiteralOf(r) ==
    outcome[r].result.expressionAttributeValues[":val" \o ToString(params[r].f.valueIndex)]

\* C26: a value under a date/time-named attribute that matches the date
\* pattern and is no date of the calendar (an impossible date, a date followed
\* by further words) is accepted with its cleaned text as the typed literal.
C26_FallbackToRawString ==
    \A r \in Requests :
        DateShapedNoDate(r) =>
            /\ Len(outcome[r].result.filterParts) = Len(params[r].f.filterParts) + 1
            /\ LiteralOf(r) = Str(Cleaned(params[r].rawValue))

\* such a value is accepted, and its typed literal is a string
C26_AcceptedAsString ==
    \A r \in Requests :
        DateShapedNoDate(r) =>
            /\ Len(outcome[r].result.filterParts) = Len(params[r].f.filterParts) + 1
            /\ LiteralOf(r).t = "string"

\* a month of 13, and a date followed by a word, are kept as they are
C26_UnparsedKept ==
    \A r \in Requests :
        /\ DateShapedNoDate(r)
        /\ params[r].rawValue \in {"2025-13-01", "2025-02-25 please"}
        => LiteralOf(r) = Str(params[r].rawValue)

\* the whole text is a numeric literal: parseFloat reads it to its end
IsNumericLiteral(value) == parseFloat(value) # <<>> /\ floatPrefixEnd(value) = Len(value)

\* the processAndAddFilter call r has added a part
HasAddedPart(r) ==
    /\ HelperDone(r, "processAndAddFilter")
    /\ Len(outcome[r].result.filterParts) = Len(params[r].f.filterParts) + 1

\* C27: the typed literal is a number only when the whole cleaned value is a
\* numeric literal; a value that starts with digits and goes on with other
\* text ("1000 units", "2025-02-25" under an attribute that is not
\* date/time-named) is kept as the full string.
C27_NumberOnlyIfWholeValue ==
    \A r \in Requests :
        HasAddedPart(r) =>
            /\ LiteralOf(r).t = "number" => IsNumericLiteral(Cleaned(params[r].rawValue))
            /\ ~IsNumericLiteral(Cleaned(params[r].rawValue))
                   /\ ~IsDateName(params[r].targetAttribute)
                   => LiteralOf(r) = Str(Cleaned(params[r].rawValue))

\* a value that is a numeric literal as a whole is typed as that number, and a
\* value that does not start with a number is kept as the full string
C27_WholeValues ==
    \A r \in Requests :
        HasAddedPart(r) /\ ~IsDateName(params[r].targetAttribute) =>
            /\ IsNumericLiteral(Cleaned(params[r].rawValue)) =>
                   LiteralOf(r) = parseFloat(Cleaned(params[r].rawValue))[1]
            /\ parseFloat(Cleaned(params[r].rawValue)) = <<>> =>
                   LiteralOf(r) = Str(Cleaned(params[r].rawValue))

\* the words of superlative intent
HighestWords == {"highest", "maximum", "max"}
LowestWords == {"lowest", "minimum", "min"}

\* one of the words occurs in the text as a word of its own
HasWordOf(words, text) == \E w \in words : MatchesWord(toLowerCase(text), w)

\* request r has taken the superlative path
TookSuperlativePath(r) ==
    /\ loc[r].branch = "superlative"
    /\ Len(calls[r]) >= 2
    /\ calls[r][2] = superlativeScanCommand(params[r].tableName[1].s)

\* C28: a request takes the unfiltered sort-and-take path only when highest,
\* maximum, max, lowest, minimum or min occurs in its query as a word, not
\* inside a longer word; and a query with a word of both classes is sorted
\* descending.
C28_SuperlativeWords ==
    \A r \in Requests :
        TookSuperlativePath(r) =>
            /\ HasWordOf(HighestWords \cup LowestWords, params[r].queryText[1].s)
            /\ HasWordOf(HighestWords, params[r].queryText[1].s)
                   /\ HasWordOf(LowestWords, params[r].queryText[1].s)
                   => loc[r].isHighest

\* a query with a word of both classes that takes the superlative path is
\* sorted descending and reported as "highest"
C28_BothClassesDescending ==
    \A r \in Requests :
        /\ TookSuperlativePath(r)
        /\ HasWordOf(HighestWords, params[r].queryText[1].s)
        /\ HasWordOf(LowestWords, params[r].queryText[1].s)
        => /\ loc[r].isHighest
           /\ SuperlativeReturned(r) =>
                  /\ includes(outcome[r].result.message, "returning highest")
                  /\ \A i, j \in 1..Len(outcome[r].result.items) :
                         i < j => ~GoesBefore(outcome[r].result.items[j],
                                              outcome[r].result.items[i],
                                              loc[r].numericField[1], TRUE)

(***************************************************************************)
(* scanTable, the scan tool of the server (src/mcp-dynamo/index.ts).       *)
(* params[r] holds the arguments of the call, calls[r] the command sent,   *)
(* replies[r] the store's reply, outcome[r] what the call returns.         *)
(***************************************************************************)
\* an attribute value in the store's JSON form {N: "..."} or {S: "..."}
AttrN(text) == [t |-> "object", N |-> text]
AttrS(text) == [t |-> "object", S |-> text]

\* one value of normalizeAttributeValues (lines 119-127): Number(val.N) or
\* val.S for a value in the store's JSON form, any other value as it is
normalizedValue(val) ==
    IF val.t = "object" /\ "N" \in DOMAIN val /\ val.N # "" THEN toSortKey(<<Str(val.N)>>)
    ELSE IF val.t = "object" /\ "S" \in DOMAIN val /\ val.S # "" THEN Str(val.S)
    ELSE val

\* normalizeAttributeValues for undefined or an object (lines 106-130)
normalizeAttributeValues(exprAttrVals) ==
    IF exprAttrVals = Undefined THEN Undefined
    ELSE <<[key \in DOMAIN exprAttrVals[1] |-> normalizedValue(exprAttrVals[1][key])]>>

\* cleanExpressionAttributeNames (lines 133-149), combinedExpression being the
\* expressions joined: it throws for the key "#", else it keeps the keys that
\* occur in the expression and returns undefined when none is kept
cleanExpressionAttributeNames(expressionAttributeNames, combinedExpression) ==
    IF expressionAttributeNames = Undefined THEN [threw |-> FALSE, names |-> Undefined]
    ELSE IF "#" \in DOMAIN expressionAttributeNames[1]
    THEN [threw |-> TRUE,
          message |-> "Invalid ExpressionAttributeNames key: \"#\" is not allowed. Use descriptive names like \"#age\", \"#name\"."]
    ELSE LET kept == {key \in DOMAIN expressionAttributeNames[1] :
                         includes(combinedExpression, key)}
         IN  [threw |-> FALSE,
              names |-> IF kept # {}
                        THEN <<[key \in kept |-> expressionAttributeNames[1][key]]>>
                        ELSE Undefined]

\* the result of the catch block of scanTable (lines 336-344) for an error
\* with the given name and message
scanTableFailure(name, message) ==
    [success |-> FALSE, message |-> "Failed to scan table: " \o message, items |-> <<>>,
     errorType |-> name]

\* the ScanCommand of scanTable (lines 315-322): a property that is undefined
\* is left out
scanTableCommand(p, cleanedNames, normalizedValues) ==
    [cmd |-> "Scan", TableName |-> p.tableName]
        @@ (IF p.filterExpression # Undefined
            THEN [FilterExpression |-> p.filterExpression[1]] ELSE EmptyObject)
        @@ (IF normalizedValues # Undefined
            THEN [ExpressionAttributeValues |-> normalizedValues[1]] ELSE EmptyObject)
        @@ (IF cleanedNames # Undefined
            THEN [ExpressionAttributeNames |-> cleanedNames[1]] ELSE EmptyObject)
        @@ (IF p.limit # Undefined THEN [Limit |-> p.limit[1]] ELSE EmptyObject)

\* [params.filterExpression].filter(Boolean), joined
combinedExpressionOf(p) ==
    IF p.filterExpression # Undefined THEN p.filterExpression[1] ELSE ""

\* scanTable from its entry to the await of the send, or to the return of its
\* catch block when cleanExpressionAttributeNames throws (lines 307-324)
scanTableEntry(p) ==
    Only({ IF cleaned.threw
           THEN Stop(NoLocals, Returned(scanTableFailure("Error", cleaned.message)))
           ELSE Step("awaitScan", NoLocals,
                     <<scanTableCommand(p, cleaned.names,
                                        normalizeAttributeValues(p.expressionAttributeValues))>>,
                     Pending)
           : cleaned \in {cleanExpressionAttributeNames(p.expressionAttributeNames,
                                                        combinedExpressionOf(p))} })

\* the store finds nothing wrong with a Scan: the expression "#name op :value"
\* has a comparison operator and its two placeholders defined, and the maps
\* hold no other key
storeValidates(cmd) ==
    /\ scanAccepted(cmd)
    /\ IF "FilterExpression" \in DOMAIN cmd
       THEN LET expr == cmd.FilterExpression
                b1 == firstBlank(expr)
                rest == SubSeq(expr, b1 + 1, Len(expr))
                b2 == firstBlank(rest)
            IN  /\ SubSeq(rest, 1, b2 - 1) \in ComparisonOperators
                /\ DOMAIN PropertyOf(cmd, "ExpressionAttributeNames")
                       = {SubSeq(expr, 1, b1 - 1)}
                /\ DOMAIN PropertyOf(cmd, "ExpressionAttributeValues")
                       = {SubSeq(rest, b2 + 1, Len(rest))}
       ELSE /\ "ExpressionAttributeNames" \notin DOMAIN cmd
            /\ "ExpressionAttributeValues" \notin DOMAIN cmd

\* error.name and error.message of the errors of a Scan
ScanErrors ==
    { [name |-> "ThrottlingException", message |-> "Rate exceeded"],
      [name |-> "ResourceNotFoundException", message |-> "Requested resource not found"] }

ValidationError ==
    [name |-> "ValidationException", message |-> "Invalid FilterExpression"]

\* the arguments of scanTable
ScanTableNameMaps ==
    { Undefined,
      <<("#attr0" :> "Amount")>>,
      <<("#attr0" :> "Amount") @@ ("#unused" :> "TradeId")>>,
      <<("#unused" :> "TradeId")>>,
      <<("#" :> "Amount")>>,
      <<("#attr0" :> "Amount") @@ ("#" :> "TradeId")>> }

ScanTableValueMaps ==
    { Undefined, <<(":val0" :> Num(1000))>>, <<(":val0" :> AttrN("1000"))>> }

ScanTableParams ==
    [fn : {"scanTable"},
     tableName : {"Trades"},
     filterExpression : {Undefined, <<"#attr0 > :val0">>, <<"# > :val0">>},
     expressionAttributeNames : ScanTableNameMaps,
     expressionAttributeValues : ScanTableValueMaps,
     limit : {Undefined, <<1>>}]

ScanTableInit ==
    /\ store \in PairStores
    /\ params \in [Requests -> ScanTableParams]
    /\ pc = [r \in Requests |-> "start"]
    /\ loc = [r \in Requests |-> NoLocals]
    /\ calls = [r \in Requests |-> <<>>]
    /\ replies = [r \in Requests |-> <<>>]
    /\ outcome = [r \in Requests |-> Pending]

\* scanTable is called
scanTableEnter(r) ==
    /\ pc[r] = "start"
    /\ \E s \in {scanTableEntry(params[r])} : Take(r, s, <<>>)

\* the send returns: the result of lines 327-335
scanTableReturns(r) ==
    /\ pc[r] = "awaitScan"
    /\ storeValidates(calls[r][1])
    /\ \E items \in {scanItems(store, calls[r][1])} :
       \E s \in {Stop(NoLocals, Returned(
                     [success |-> TRUE,
                      message |-> "Scan executed successfully on table "
                                      \o params[r].tableName,
                      items |-> items,
                      count |-> Len(items)]))} :
           Take(r, s, <<Replied(items)>>)

\* the send throws: a validation error for a command the store turns down,
\* any other error at any time
scanTableFails(r) ==
    /\ pc[r] = "awaitScan"
    /\ \E e \in ScanErrors \cup (IF storeValidates(calls[r][1]) THEN {} ELSE {ValidationError}) :
       \E s \in {Stop(NoLocals, Returned(scanTableFailure(e.name, e.message)))} :
           Take(r, s, <<Threw(e.message)>>)

ScanTableNext ==
    \E r \in Requests :
        \/ scanTableEnter(r)
        \/ scanTableReturns(r)
        \/ scanTableFails(r)

ScanTableSpec == ScanTableInit /\ [][ScanTableNext]_vars

\* the scanTable call r was given a name map with the key "#"
HasReservedKey(r) ==
    /\ params[r].expressionAttributeNames # Undefined
    /\ "#" \in DOMAIN params[r].expressionAttributeNames[1]

\* C29: a call of scanTable with a name map that holds the key "#" sends no
\* command and returns, without raising, success = false, no items and the
\* errorType InternalError; with any other map, a key reaches the store only
\* if it occurs in the filter expression.
C29_ReservedPlaceholder ==
    \A r \in Requests :
        pc[r] # "start" =>
            IF HasReservedKey(r)
            THEN /\ pc[r] = "done" /\ calls[r] = <<>>
                 /\ HasReturned(r)
                 /\ ~outcome[r].result.success
                 /\ outcome[r].result.items = <<>>
                 /\ outcome[r].result.errorType = "InternalError"
            ELSE /\ Len(calls[r]) = 1
                 /\ \A key \in DOMAIN PropertyOf(calls[r][1], "ExpressionAttributeNames") :
                        /\ params[r].filterExpression # Undefined
                        /\ includes(params[r].filterExpression[1], key)

\* the same without the errorType: no command, no exception, a failure result
\* with a text; and only keys of the expression are forwarded
C29_FailureResult ==
    \A r \in Requests :
        pc[r] # "start" =>
            IF HasReservedKey(r)
            THEN /\ pc[r] = "done" /\ calls[r] = <<>>
                 /\ HasReturned(r)
                 /\ ~outcome[r].result.success
                 /\ outcome[r].result.items = <<>>
                 /\ outcome[r].result.errorType = "Error"
                 /\ includes(outcome[r].result.message, "\"#\" is not allowed")
            ELSE /\ Len(calls[r]) = 1
                 /\ \A key \in DOMAIN PropertyOf(calls[r][1], "ExpressionAttributeNames") :
                        /\ params[r].filterExpression # Undefined
                        /\ includes(params[r].filterExpression[1], key)
                        /\ calls[r][1].ExpressionAttributeNames[key]
                               = params[r].expressionAttributeNames[1][key]

(***************************************************************************)
(* The variant of smartQuery in src/help.ts: section B is a loop over      *)
(* three patterns, each run in a while loop over pattern.exec.  A request  *)
(* stands at "whileTest" before a call of exec and at "loopBody" after a   *)
(* match; loc[r].pattern is the pattern of the for loop, loc[r].match the  *)
(* groups of the match.                                                    *)
(***************************************************************************)
prepositions == <<"from", "is", "in", "for">>

\* /(?:from|is|in|for)\s+([A-Za-z0-9\s-]+)/i tried at offset i of s, whose
\* lower-case form is lower
prepositionAt(s, lower, i) ==
    Only({ IF alts = {} THEN <<>>
           ELSE <<valueGroup(s, i + Len(prepositions[Least(alts)]) + 1, 1,
                             SimpleValueChars)[1]>>
           : alts \in {{k \in 1..Len(prepositions) :
                          /\ OccursAt(lower, prepositions[k], i)
                          /\ valueGroup(s, i + Len(prepositions[k]) + 1, 1,
                                        SimpleValueChars) # <<>>}} })

\* the leftmost match from offset i on
RECURSIVE prepositionFrom(_, _, _)
prepositionFrom(s, lower, i) ==
    IF i > Len(s) THEN <<>>
    ELSE Only({ IF m # <<>> THEN m ELSE prepositionFrom(s, lower, i + 1)
                : m \in {prepositionAt(s, lower, i)} })

\* matchPatterns[k].exec(tempQuery), the groups of the match or <<>> for null.
\* The patterns have no g flag: every call of exec starts at the beginning of
\* the text and returns the same match
patternExec(k, s) ==
    IF k = 1 THEN Only({ prepositionFrom(s, lower, 0) : lower \in {toLowerCase(s)} })
    ELSE IF k = 2 THEN explicitMatch(s)
    ELSE simpleMatch(s)

\* the locals of the variant: those of smartQuery and the position in the loops
helpLocals(locals, k, m) ==
    [attributeNames |-> locals.attributeNames, numericField |-> locals.numericField,
     isHighest |-> locals.isHighest, isLowest |-> locals.isLowest,
     branch |-> locals.branch, filter |-> locals.filter,
     filterExpression |-> locals.filterExpression, pattern |-> k, match |-> m]

\* help.ts from the return of getTableSchema to the next await, return or
\* first call of exec (lines 63-123), for a description with well-formed
\* attribute definitions and a query text that is a string
helpAfterSchema(p, tableSchema) ==
    IF tableSchema = <<>> \/ "AttributeDefinitions" \notin DOMAIN tableSchema[1]
    THEN Stop(NoLocals, Returned(Failure("SchemaError",
             "Could not retrieve schema for table " \o p.tableName[1].s \o ".")))
    ELSE Only({ Only({ IF superlativeApplies(locals.isHighest, locals.isLowest,
                                              locals.numericField)
                       THEN Step("awaitScan", helpLocals(locals, 1, <<>>),
                                 <<superlativeScanCommand(p.tableName[1].s)>>, Pending)
                       ELSE Step("whileTest", helpLocals(locals, 1, <<>>), <<>>, Pending)
                       : locals \in {superlativeLocals(
                                         [i \in 1..Len(names) |-> names[i].s],
                                         toLowerCase(p.queryText[1].s))} })
                : names \in {definedNames(tableSchema[1].AttributeDefinitions.defs)} })

\* help.ts behind the while loop of a pattern (lines 186-236): out of the for
\* loop when a filter part was added or the last pattern was tried, and then
\* the filtered scan or InvalidFilter; else on to the next pattern
helpAfterWhile(p, locals) ==
    IF Len(locals.filter.filterParts) > 0 \/ locals.pattern = Len(<<1, 2, 3>>)
    THEN Only({ Step(s.pc, helpLocals(s.loc, locals.pattern, <<>>), s.send, s.outcome)
                : s \in {finalScan(p, withFilter(locals, locals.filter))} })
    ELSE Step("whileTest", helpLocals(locals, locals.pattern + 1, <<>>), <<>>, Pending)

\* the while test (line 129): exec returns null and the loop ends, or a match
\* and the body runs
helpWhileTest(p, locals) ==
    Only({ IF m = <<>> THEN helpAfterWhile(p, locals)
           ELSE Step("loopBody", helpLocals(locals, locals.pattern, m), <<>>, Pending)
           : m \in {patternExec(locals.pattern, p.queryText[1].s)} })

\* the filter variables after lines 146-182: one part added
helpAddFilter(f, targetAttribute, op, value) ==
    [filterParts |->
         Append(f.filterParts, "#attr" \o ToString(f.valueIndex) \o " " \o op \o " "
                                   \o ":val" \o ToString(f.valueIndex)),
     expressionAttributeValues |->
         ((":val" \o ToString(f.valueIndex)) :> typedValue(targetAttribute, value))
             @@ f.expressionAttributeValues,
     expressionAttributeNames |->
         (("#attr" \o ToString(f.valueIndex)) :> targetAttribute)
             @@ f.expressionAttributeNames,
     valueIndex |-> f.valueIndex + 1,
     filterFound |-> TRUE]

\* the body of the while loop (lines 130-184).  Group 1 of each pattern is
\* never empty, so value is group 1, cleaned; op is group 2 where the match
\* has one.  An empty value takes "continue", back to the while test; else the
\* body ends in "break"
helpLoopBody(p, locals) ==
    Only({ IF value = ""
           THEN Step("whileTest", helpLocals(locals, locals.pattern, <<>>), <<>>, Pending)
           ELSE Only({ helpAfterWhile(p, [locals EXCEPT !.filter = f])
                       : f \in { IF targetAttribute # <<>>
                                 THEN helpAddFilter(locals.filter, targetAttribute[1],
                                                    IF Len(locals.match) >= 2
                                                    THEN locals.match[2] ELSE "=",
                                                    value)
                                 ELSE locals.filter
                                 : targetAttribute \in
                                       {findBestAttributeMatch(p.queryText[1].s,
                                                               locals.attributeNames)} } })
           : value \in {removeQuotesFrom(trim(locals.match[1]), 1)} })

\* the query texts of the variant; one ends in "from" and two blanks
HelpQueryStrings ==
    { "records from China", "records from  ", "Amount > 1000", "highest amount",
      "xyz123 blah", "trades in 2025", "SourceCountry = China", "when 2025-02-25" }

HelpParams ==
    [tableName : {<<Str("Trades")>>},
     queryText : {<<Str(q)>> : q \in HelpQueryStrings},
     limit : {Undefined, <<1>>}]

HelpInit ==
    /\ store \in PairStores
    /\ params \in [Requests -> HelpParams]
    /\ pc = [r \in Requests |-> "start"]
    /\ loc = [r \in Requests |-> NoLocals]
    /\ calls = [r \in Requests |-> <<>>]
    /\ replies = [r \in Requests |-> <<>>]
    /\ outcome = [r \in Requests |-> Pending]

\* smartQuery of help.ts is called (lines 48-63)
helpEnter(r) ==
    /\ pc[r] = "start"
    /\ \E s \in {enter(params[r])} : Take(r, s, <<>>)

helpDescribeTableReturns(r) ==
    /\ pc[r] = "awaitSchema"
    /\ \E s \in {helpAfterSchema(params[r], store.description)} :
           Take(r, s, <<Replied(store.description)>>)

helpDescribeTableFails(r) ==
    /\ pc[r] = "awaitSchema"
    /\ \E e \in StoreErrors : \E s \in {helpAfterSchema(params[r], <<>>)} :
           Take(r, s, <<Threw(e)>>)

\* one evaluation of the while test
helpExec(r) ==
    /\ pc[r] = "whileTest"
    /\ \E s \in {helpWhileTest(params[r], loc[r])} : Take(r, s, <<>>)

\* one run of the loop body
helpBody(r) ==
    /\ pc[r] = "loopBody"
    /\ \E s \in {helpLoopBody(params[r], loc[r])} : Take(r, s, <<>>)

\* the Scan returns; the store accepts the command
helpScanReturns(r) ==
    /\ pc[r] = "awaitScan"
    /\ storeValidates(calls[r][Len(calls[r])])
    /\ \E items \in {scanItems(store, calls[r][Len(calls[r])])} :
       \E s \in {afterScan(params[r], loc[r], items)} : Take(r, s, <<Replied(items)>>)

\* the Scan throws: a validation error for a command the store turns down, any
\* other error at any time
helpScanFails(r) ==
    /\ pc[r] = "awaitScan"
    /\ \E e \in StoreErrors \cup (IF storeValidates(calls[r][Len(calls[r])])
                                THEN {} ELSE {ValidationError.message}) :
       \E s \in {catchError(loc[r], e)} : Take(r, s, <<Threw(e)>>)

HelpNext ==
    \E r \in Requests :
        \/ helpEnter(r)
        \/ helpDescribeTableReturns(r)
        \/ helpDescribeTableFails(r)
        \/ helpExec(r)
        \/ helpBody(r)
        \/ helpScanReturns(r)
        \/ helpScanFails(r)

\* the code keeps running between awaits, and every store call returns or fails
HelpSpec == HelpInit /\ [][HelpNext]_vars /\ WF_vars(HelpNext)

\* C30: every request returns a result in the end, whatever its query text,
\* provided every store call returns or fails.
C30_Terminates == \A r \in Requests : <>(pc[r] = "done")

\* the steps a request has left at most, by its position in
\* src/unnamed/part_000
PcRank(position) ==
    CASE position = "start" -> 3
      [] position = "awaitSchema" -> 2
      [] position = "awaitScan" -> 1
      [] OTHER -> 0

\* the cascade of src/unnamed/part_000 has no loop: every step of a request of
\* Spec leaves it fewer steps
C30_CascadeProgress ==
    [][\A r \in Requests : pc'[r] # pc[r] => PcRank(pc'[r]) < PcRank(pc[r])]_vars

====
